---- MODULE Spec2Model ----
(***************************************************************************)
(* Dynamic query engine of src/src/models/Query.js: the parameter          *)
(* validator (validateParameters), the textual substitution engine         *)
(* (substituteParameters) and the execution recorder (recordExecution).    *)
(*                                                                         *)
(* Text is a sequence of one-character strings, so that JSON.stringify,    *)
(* the global regex replace and JSON.parse are computed on characters as   *)
(* the code computes them.  Numbers are integers; fractions, exponents and *)
(* control characters do not occur in the inputs drawn below.              *)
(***************************************************************************)
EXTENDS Integers, Sequences, FiniteSets, TLC

(***************************************************************************)
(* JavaScript values.  Every value is a record of the same shape; the tag  *)
(* t says which field carries the payload.  The entries of an object or    *)
(* an array are records [k, v]; an array entry has the empty key.          *)
(***************************************************************************)
JVal(t, s, n, b, kids) == [t |-> t, s |-> s, n |-> n, b |-> b, kids |-> kids]

JStr(s) == JVal("str", s, 0, FALSE, <<>>)

JNum(n) == JVal("num", <<>>, n, FALSE, <<>>)

JNaN == JVal("nan", <<>>, 0, FALSE, <<>>)

JBool(b) == JVal("bool", <<>>, 0, b, <<>>)

JNull == JVal("null", <<>>, 0, FALSE, <<>>)
\* undefined: what the caller passes when the request carries no parameters.
JUndefined == JVal("undefined", <<>>, 0, FALSE, <<>>)

JArr(kids) == JVal("arr", <<>>, 0, FALSE, kids)

JObj(kids) == JVal("obj", <<>>, 0, FALSE, kids)

\* A Date object: b is its validity, s its ISO text (toISOString).
JDate(valid, iso) == JVal("date", iso, 0, valid, <<>>)

\* An ObjectId: s is its 24 hexadecimal characters.
JOid(hex) == JVal("oid", hex, 0, FALSE, <<>>)

Entry(k, v) == [k |-> k, v |-> v]

Elem(v) == Entry(<<>>, v)

(***************************************************************************)
(* Characters and text helpers.                                            *)
(***************************************************************************)
DigitChars == <<"0", "1", "2", "3", "4", "5", "6", "7", "8", "9">>

HexChars == {"0", "1", "2", "3", "4", "5", "6", "7", "8", "9",
             "a", "b", "c", "d", "e", "f", "A", "B", "C", "D", "E", "F"}

IsDigit(c) == \E d \in 1..10 : DigitChars[d] = c

DigitVal(c) == (CHOOSE d \in 1..10 : DigitChars[d] = c) - 1

\* Does text txt carry word w at position i?
StartsAt(txt, i, w) ==
  /\ i + Len(w) - 1 <= Len(txt)
  /\ \A j \in 1..Len(w) : txt[i + j - 1] = w[j]

RECURSIVE NatDigits(_)
NatDigits(n) ==
  IF n < 10 THEN <<DigitChars[n + 1]>>
  ELSE NatDigits(n \div 10) \o <<DigitChars[(n % 10) + 1]>>

\* Number.prototype.toString for an integer.
NumberToString(n) == IF n < 0 THEN <<"-">> \o NatDigits(0 - n) ELSE NatDigits(n)

(***************************************************************************)
(* JSON.stringify (Query.js:223 on the template query, Query.js:255 on the *)
(* coerced value).  A string is quoted with '"' and '\' escaped; NaN and   *)
(* an invalid Date serialise as null; a Date and an ObjectId serialise     *)
(* through toJSON as a quoted string.                                      *)
(***************************************************************************)
RECURSIVE EscapeChars(_)
EscapeChars(s) ==
  IF s = <<>> THEN <<>>
  ELSE (IF Head(s) = "\"" \/ Head(s) = "\\" THEN <<"\\", Head(s)>> ELSE <<Head(s)>>)
       \o EscapeChars(Tail(s))

Quote(s) == <<"\"">> \o EscapeChars(s) \o <<"\"">>

RECURSIVE JSONstringify(_)
RECURSIVE StringifyEntries(_, _)
StringifyEntries(kids, isObj) ==
  IF kids = <<>> THEN <<>>
  ELSE (IF isObj THEN Quote(Head(kids).k) \o <<":">> ELSE <<>>)
       \o JSONstringify(Head(kids).v)
       \o (IF Len(kids) > 1 THEN <<",">> ELSE <<>>)
       \o StringifyEntries(Tail(kids), isObj)

JSONstringify(v) ==
  CASE v.t = "str"  -> Quote(v.s)
    [] v.t = "num"  -> NumberToString(v.n)
    [] v.t = "nan"  -> <<"n", "u", "l", "l">>
    [] v.t = "bool" -> IF v.b THEN <<"t", "r", "u", "e">> ELSE <<"f", "a", "l", "s", "e">>
    [] v.t = "null" -> <<"n", "u", "l", "l">>
    [] v.t = "date" -> IF v.b THEN Quote(v.s) ELSE <<"n", "u", "l", "l">>
    [] v.t = "oid"  -> Quote(v.s)
    [] v.t = "arr"  -> <<"[">> \o StringifyEntries(v.kids, FALSE) \o <<"]">>
    [] v.t = "obj"  -> <<"{">> \o StringifyEntries(v.kids, TRUE) \o <<"}">>

(***************************************************************************)
(* JSON.parse (Query.js:258).  Recursive descent over the characters; a    *)
(* parse result is [ok, v, i]: success flag, value, next position.  A text *)
(* that is not one JSON value followed by nothing makes JSON.parse throw   *)
(* SyntaxError, which substituteParameters does not catch.                 *)
(***************************************************************************)
ParseFail == [ok |-> FALSE, v |-> JNull, i |-> 0]

ParseOk(v, i) == [ok |-> TRUE, v |-> v, i |-> i]

RECURSIVE SkipWs(_, _)
SkipWs(txt, i) == IF i <= Len(txt) /\ txt[i] = " " THEN SkipWs(txt, i + 1) ELSE i

\* Characters of a string literal from position i (after the opening quote).
RECURSIVE ScanString(_, _, _)
ScanString(txt, i, acc) ==
  IF i > Len(txt) THEN ParseFail
  ELSE IF txt[i] = "\"" THEN ParseOk(JStr(acc), i + 1)
  ELSE IF txt[i] = "\\"
       THEN IF i + 1 <= Len(txt) /\ txt[i + 1] \in {"\"", "\\", "/"}
            THEN ScanString(txt, i + 2, Append(acc, txt[i + 1]))
            ELSE ParseFail
  ELSE ScanString(txt, i + 1, Append(acc, txt[i]))

RECURSIVE ScanDigits(_, _, _)
ScanDigits(txt, i, acc) ==
  IF i <= Len(txt) /\ IsDigit(txt[i])
  THEN ScanDigits(txt, i + 1, acc * 10 + DigitVal(txt[i]))
  ELSE ParseOk(JNum(acc), i)

\* -? ( 0 | [1-9][0-9]* )
ParseNumber(txt, i) ==
  LET neg == txt[i] = "-"
      j == IF neg THEN i + 1 ELSE i
  IN IF j > Len(txt) \/ ~IsDigit(txt[j]) THEN ParseFail
     ELSE LET r == IF txt[j] = "0" THEN ParseOk(JNum(0), j + 1)
                   ELSE ScanDigits(txt, j, 0)
          IN IF neg THEN ParseOk(JNum(0 - r.v.n), r.i) ELSE r

\* Property assignment on an object under construction: a repeated key
\* keeps its first position and takes the last value.
ObjSet(kids, k, v) ==
  IF \E j \in 1..Len(kids) : kids[j].k = k
  THEN [j \in 1..Len(kids) |-> IF kids[j].k = k THEN Entry(k, v) ELSE kids[j]]
  ELSE Append(kids, Entry(k, v))

RECURSIVE ParseValue(_, _)
RECURSIVE ParseElements(_, _, _)
RECURSIVE ParseMembers(_, _, _)
\* Elements of an array, positioned at the start of an element.
ParseElements(txt, i, acc) ==
  LET r == ParseValue(txt, i)
      j == SkipWs(txt, r.i)
  IN IF ~r.ok \/ j > Len(txt) THEN ParseFail
     ELSE IF txt[j] = "," THEN ParseElements(txt, j + 1, Append(acc, Elem(r.v)))
     ELSE IF txt[j] = "]" THEN ParseOk(JArr(Append(acc, Elem(r.v))), j + 1)
     ELSE ParseFail

\* Members of an object, positioned before a key.
ParseMembers(txt, i, acc) ==
  LET ki == SkipWs(txt, i)
  IN IF ki > Len(txt) \/ txt[ki] # "\"" THEN ParseFail
     ELSE LET k == ScanString(txt, ki + 1, <<>>)
              ci == SkipWs(txt, k.i)
          IN IF ~k.ok \/ ci > Len(txt) \/ txt[ci] # ":" THEN ParseFail
             ELSE LET r == ParseValue(txt, ci + 1)
                      j == SkipWs(txt, r.i)
                  IN IF ~r.ok \/ j > Len(txt) THEN ParseFail
                     ELSE IF txt[j] = ","
                          THEN ParseMembers(txt, j + 1, ObjSet(acc, k.v.s, r.v))
                     ELSE IF txt[j] = "}"
                          THEN ParseOk(JObj(ObjSet(acc, k.v.s, r.v)), j + 1)
                     ELSE ParseFail

ParseValue(txt, i0) ==
  LET i == SkipWs(txt, i0)
  IN IF i > Len(txt) THEN ParseFail
     ELSE IF txt[i] = "\"" THEN ScanString(txt, i + 1, <<>>)
     ELSE IF txt[i] = "-" \/ IsDigit(txt[i]) THEN ParseNumber(txt, i)
     ELSE IF StartsAt(txt, i, <<"t", "r", "u", "e">>) THEN ParseOk(JBool(TRUE), i + 4)
     ELSE IF StartsAt(txt, i, <<"f", "a", "l", "s", "e">>) THEN ParseOk(JBool(FALSE), i + 5)
     ELSE IF StartsAt(txt, i, <<"n", "u", "l", "l">>) THEN ParseOk(JNull, i + 4)
     ELSE IF txt[i] = "["
          THEN LET j == SkipWs(txt, i + 1)
               IN IF j <= Len(txt) /\ txt[j] = "]" THEN ParseOk(JArr(<<>>), j + 1)
                  ELSE ParseElements(txt, j, <<>>)
     ELSE IF txt[i] = "{"
          THEN LET j == SkipWs(txt, i + 1)
               IN IF j <= Len(txt) /\ txt[j] = "}" THEN ParseOk(JObj(<<>>), j + 1)
                  ELSE ParseMembers(txt, j, <<>>)
     ELSE ParseFail

\* JSON.parse: [ok, v]; ok = FALSE stands for the SyntaxError it throws.
JSONparse(txt) ==
  LET r == ParseValue(txt, 1)
  IN IF r.ok /\ SkipWs(txt, r.i) = Len(txt) + 1
     THEN [ok |-> TRUE, v |-> r.v]
     ELSE [ok |-> FALSE, v |-> JNull]

(***************************************************************************)
(* JavaScript coercions used by the validator and the substitution engine. *)
(***************************************************************************)
RECURSIVE JoinStrings(_)
\* Array.prototype.join(",") over already converted element strings.
JoinStrings(ss) ==
  IF ss = <<>> THEN <<>>
  ELSE IF Len(ss) = 1 THEN Head(ss)
  ELSE Head(ss) \o <<",">> \o JoinStrings(Tail(ss))

RECURSIVE JSToString(_)
\* ToString of a JSON value (the string the numeric coercion sees).
JSToString(v) ==
  CASE v.t = "str"  -> v.s
    [] v.t = "num"  -> NumberToString(v.n)
    [] v.t = "nan"  -> <<"N", "a", "N">>
    [] v.t = "bool" -> IF v.b THEN <<"t", "r", "u", "e">> ELSE <<"f", "a", "l", "s", "e">>
    [] v.t = "null" -> <<"n", "u", "l", "l">>
    [] v.t = "arr"  -> JoinStrings([j \in 1..Len(v.kids) |->
                          IF v.kids[j].v.t = "null" THEN <<>> ELSE JSToString(v.kids[j].v)])
    [] v.t = "obj"  -> <<"[", "o", "b", "j", "e", "c", "t", " ", "O", "b", "j", "e", "c", "t", "]">>

RECURSIVE TrimLeft(_)
TrimLeft(s) == IF s # <<>> /\ Head(s) = " " THEN TrimLeft(Tail(s)) ELSE s

RECURSIVE TrimRight(_)
TrimRight(s) ==
  IF s # <<>> /\ s[Len(s)] = " " THEN TrimRight(SubSeq(s, 1, Len(s) - 1)) ELSE s

RECURSIVE DigitsValue(_, _)
DigitsValue(s, acc) ==
  IF s = <<>> THEN acc ELSE DigitsValue(Tail(s), acc * 10 + DigitVal(Head(s)))

\* StringToNumber: surrounding blanks are dropped, the empty string is 0,
\* an optionally signed run of decimal digits is its value, all else NaN.
StringToNumber(s0) ==
  LET s == TrimRight(TrimLeft(s0))
      signed == s # <<>> /\ Head(s) \in {"-", "+"}
      ds == IF signed THEN Tail(s) ELSE s
  IN IF s = <<>> THEN JNum(0)
     ELSE IF ds # <<>> /\ \A j \in 1..Len(ds) : IsDigit(ds[j])
          THEN JNum(IF Head(s) = "-" THEN 0 - DigitsValue(ds, 0) ELSE DigitsValue(ds, 0))
     ELSE JNaN

\* Number(value) (Query.js:237).
Number(v) ==
  CASE v.t = "num"  -> v
    [] v.t = "nan"  -> v
    [] v.t = "bool" -> JNum(IF v.b THEN 1 ELSE 0)
    [] v.t = "null" -> JNum(0)
    [] OTHER        -> StringToNumber(JSToString(v))

\* isNaN(value) (Query.js:177, 199).
isNaN(v) == Number(v).t = "nan"

\* Boolean(value) (Query.js:240): truthiness.
Boolean(v) ==
  CASE v.t = "str"  -> v.s # <<>>
    [] v.t = "num"  -> v.n # 0
    [] v.t = "nan"  -> FALSE
    [] v.t = "bool" -> v.b
    [] v.t = "null" -> FALSE
    [] v.t = "undefined" -> FALSE
    [] OTHER        -> TRUE

\* value < bound and value > bound with a Number bound (Query.js:201, 204):
\* both sides are compared as numbers, and NaN compares false.
LessThan(v, bound) == Number(v).t = "num" /\ Number(v).n < bound

GreaterThan(v, bound) == Number(v).t = "num" /\ Number(v).n > bound

\* Date.parse (Query.js:187) and new Date (Query.js:243) on a string: the
\* ISO year form YYYY is a valid date, midnight UTC of 1 January; a string
\* with no digit is not a date.  Date parameters are only given strings.
IsDateString(s) == Len(s) = 4 /\ \A j \in 1..4 : IsDigit(s[j])

DateParseIsNaN(v) == ~(v.t = "str" /\ IsDateString(v.s))

NewDate(v) ==
  IF v.t = "str" /\ IsDateString(v.s)
  THEN JDate(TRUE, v.s \o <<"-", "0", "1", "-", "0", "1", "T", "0", "0", ":", "0", "0",
                            ":", "0", "0", ".", "0", "0", "0", "Z">>)
  ELSE JDate(FALSE, <<>>)

\* mongoose.Types.ObjectId.isValid (Query.js:192): a number (a timestamp)
\* or a 24 character hexadecimal string constructs an ObjectId.
IsHex24(s) == Len(s) = 24 /\ \A j \in 1..24 : s[j] \in HexChars

ObjectIdIsValid(v) == v.t = "num" \/ (v.t = "str" /\ IsHex24(v.s))

RECURSIVE HexDigits(_, _)
\* n as exactly w lower-case hexadecimal digits.
HexDigits(n, w) ==
  IF w = 0 THEN <<>>
  ELSE HexDigits(n \div 16, w - 1)
       \o <<(<<"0", "1", "2", "3", "4", "5", "6", "7", "8", "9",
               "a", "b", "c", "d", "e", "f">>)[(n % 16) + 1]>>

LowerHex(c) ==
  CASE c = "A" -> "a" [] c = "B" -> "b" [] c = "C" -> "c"
    [] c = "D" -> "d" [] c = "E" -> "e" [] c = "F" -> "f" [] OTHER -> c

\* new mongoose.Types.ObjectId(value) (Query.js:246): [ok, v]; ok = FALSE is
\* the BSONError of the constructor.  toHexString is lower case.  For a
\* number the first four bytes are the timestamp; the process-random and
\* counter bytes are written as zeros.
NewObjectId(v) ==
  IF v.t = "str" /\ IsHex24(v.s)
  THEN [ok |-> TRUE, v |-> JOid([j \in 1..24 |-> LowerHex(v.s[j])])]
  ELSE IF v.t = "num" /\ v.n >= 0
  THEN [ok |-> TRUE, v |-> JOid(HexDigits(v.n, 8) \o [j \in 1..16 |-> "0"])]
  ELSE [ok |-> FALSE, v |-> JNull]

(***************************************************************************)
(* Parameter schema and query template (Query.js:9-102).  A parameter is   *)
(* [name, type, required, validation]; validation is the nested object     *)
(* [hasMin, min, hasMax, max, hasEnum, enum], where hasX = FALSE stands    *)
(* for X === undefined and enum is a list of strings.                      *)
(***************************************************************************)
ParamTypes == {"string", "number", "boolean", "date", "objectId"}

Validation(hasMin, min, hasMax, max, hasEnum, enum) ==
  [hasMin |-> hasMin, min |-> min, hasMax |-> hasMax, max |-> max,
   hasEnum |-> hasEnum, enum |-> enum]

NoValidation == Validation(FALSE, 0, FALSE, 0, FALSE, <<>>)

Param(name, type, required, validation) ==
  [name |-> name, type |-> type, required |-> required, validation |-> validation]

\* this.parameters.find(p => p.name === paramName): index of the first
\* parameter of that name, 0 for undefined (Query.js:167, 232).
FindParam(parameters, paramName) ==
  IF \E j \in 1..Len(parameters) : parameters[j].name = paramName
  THEN CHOOSE j \in 1..Len(parameters) :
         /\ parameters[j].name = paramName
         /\ \A h \in 1..(j - 1) : parameters[h].name # paramName
  ELSE 0

\* providedParams.hasOwnProperty(name) (Query.js:160).
HasOwnProperty(providedParams, name) ==
  \E j \in 1..Len(providedParams.kids) : providedParams.kids[j].k = name

(***************************************************************************)
(* validateParameters (Query.js:155-219).  An error message is the         *)
(* concatenation the template literal builds, as a sequence of text        *)
(* pieces; the result is the list of messages in push order.               *)
(***************************************************************************)
MsgRequired(name) == <<"Required parameter '">> \o name \o <<"' is missing">>

MsgUnknown(name) == <<"Unknown parameter '">> \o name \o <<"'">>

MsgNumber(name) == <<"Parameter '">> \o name \o <<"' must be a number">>

MsgBoolean(name) == <<"Parameter '">> \o name \o <<"' must be a boolean">>

MsgDate(name) == <<"Parameter '">> \o name \o <<"' must be a valid date">>

MsgObjectId(name) == <<"Parameter '">> \o name \o <<"' must be a valid ObjectId">>

MsgMin(name, min) ==
  <<"Parameter '">> \o name \o <<"' must be at least ">> \o NumberToString(min)

MsgMax(name, max) ==
  <<"Parameter '">> \o name \o <<"' must be at most ">> \o NumberToString(max)

RECURSIVE JoinCommaSpace(_)
\* enum.join(', ')
JoinCommaSpace(ss) ==
  IF ss = <<>> THEN <<>>
  ELSE IF Len(ss) = 1 THEN Head(ss)
  ELSE Head(ss) \o <<",", " ">> \o JoinCommaSpace(Tail(ss))

MsgEnum(name, enum) ==
  <<"Parameter '">> \o name \o <<"' must be one of: ">> \o JoinCommaSpace(enum)

RECURSIVE RequiredErrorsAnyParam(_, _)
\* Variant of RequiredErrors that forgets the required flag.
RequiredErrorsAnyParam(parameters, providedParams) ==
  IF parameters = <<>> THEN <<>>
  ELSE (IF ~HasOwnProperty(providedParams, Head(parameters).name)
        THEN <<MsgRequired(Head(parameters).name)>> ELSE <<>>)
       \o RequiredErrorsAnyParam(Tail(parameters), providedParams)

RECURSIVE RequiredErrors(_, _)
\* Query.js:159-163: one error per required parameter that is no own
\* property of providedParams, in the order of this.parameters.
RequiredErrors(parameters, providedParams) ==
  IF parameters = <<>> THEN <<>>
  ELSE (IF Head(parameters).required
           /\ ~HasOwnProperty(providedParams, Head(parameters).name)
        THEN <<MsgRequired(Head(parameters).name)>> ELSE <<>>)
       \o RequiredErrors(Tail(parameters), providedParams)

\* Query.js:175-196: the type switch; 'string' has no case.
TypeErrors(paramDef, paramName, paramValue) ==
  CASE paramDef.type = "number" ->
         IF isNaN(paramValue) THEN <<MsgNumber(paramName)>> ELSE <<>>
    [] paramDef.type = "boolean" ->
         IF paramValue.t # "bool" THEN <<MsgBoolean(paramName)>> ELSE <<>>
    [] paramDef.type = "date" ->
         IF DateParseIsNaN(paramValue) THEN <<MsgDate(paramName)>> ELSE <<>>
    [] paramDef.type = "objectId" ->
         IF ~ObjectIdIsValid(paramValue) THEN <<MsgObjectId(paramName)>> ELSE <<>>
    [] OTHER -> <<>>

\* Variant of RangeErrors with exclusive bounds (<= and >=).
RangeErrorsExclusive(paramDef, paramName, paramValue) ==
  IF paramDef.type = "number" /\ ~isNaN(paramValue)
  THEN (IF paramDef.validation.hasMin /\ ~GreaterThan(paramValue, paramDef.validation.min)
        THEN <<MsgMin(paramName, paramDef.validation.min)>> ELSE <<>>)
       \o
       (IF paramDef.validation.hasMax /\ ~LessThan(paramValue, paramDef.validation.max)
        THEN <<MsgMax(paramName, paramDef.validation.max)>> ELSE <<>>)
  ELSE <<>>

\* Query.js:198-208: range validation for numbers.
RangeErrors(paramDef, paramName, paramValue) ==
  IF paramDef.type = "number" /\ ~isNaN(paramValue)
  THEN (IF paramDef.validation.hasMin /\ LessThan(paramValue, paramDef.validation.min)
        THEN <<MsgMin(paramName, paramDef.validation.min)>> ELSE <<>>)
       \o
       (IF paramDef.validation.hasMax /\ GreaterThan(paramValue, paramDef.validation.max)
        THEN <<MsgMax(paramName, paramDef.validation.max)>> ELSE <<>>)
  ELSE <<>>

\* Query.js:210-215: enum.includes(paramValue) compares with the (string)
\* entries by SameValueZero, so only an equal string is a member.
EnumErrors(paramDef, paramName, paramValue) ==
  IF paramDef.validation.hasEnum
     /\ ~(paramValue.t = "str"
          /\ \E j \in 1..Len(paramDef.validation.enum) :
                paramDef.validation.enum[j] = paramValue.s)
  THEN <<MsgEnum(paramName, paramDef.validation.enum)>>
  ELSE <<>>

\* Variant of EntryErrors that skips an undeclared key without an error.
EntryErrorsSkipUnknown(parameters, paramName, paramValue) ==
  LET d == FindParam(parameters, paramName)
  IN IF d = 0 THEN <<>>
     ELSE TypeErrors(parameters[d], paramName, paramValue)
          \o RangeErrors(parameters[d], paramName, paramValue)
          \o EnumErrors(parameters[d], paramName, paramValue)

\* Query.js:166-216, one iteration of the loop over Object.entries.
EntryErrors(parameters, paramName, paramValue) ==
  LET d == FindParam(parameters, paramName)
  IN IF d = 0 THEN <<MsgUnknown(paramName)>>
     ELSE TypeErrors(parameters[d], paramName, paramValue)
          \o RangeErrors(parameters[d], paramName, paramValue)
          \o EnumErrors(parameters[d], paramName, paramValue)

RECURSIVE ProvidedErrorsShortCircuit(_, _)
\* Variant of ProvidedErrors that stops at the first entry with an error
\* and keeps only that entry's first error.
ProvidedErrorsShortCircuit(parameters, entries) ==
  IF entries = <<>> THEN <<>>
  ELSE LET first == EntryErrors(parameters, Head(entries).k, Head(entries).v)
       IN IF first # <<>> THEN <<Head(first)>>
          ELSE ProvidedErrorsShortCircuit(parameters, Tail(entries))

RECURSIVE ProvidedErrors(_, _)
\* Query.js:166: the loop over Object.entries(providedParams), in the
\* insertion order of the keys.
ProvidedErrors(parameters, entries) ==
  IF entries = <<>> THEN <<>>
  ELSE EntryErrors(parameters, Head(entries).k, Head(entries).v)
       \o ProvidedErrors(parameters, Tail(entries))

\* Query.js:160 and 166: providedParams.hasOwnProperty(...) and
\* Object.entries(providedParams) throw a TypeError when providedParams is
\* undefined or null; one of the two is always evaluated.
validateParametersThrows(tmpl, providedParams) ==
  providedParams.t \in {"undefined", "null"}

validateParameters(tmpl, providedParams) ==
  RequiredErrors(tmpl.parameters, providedParams)
  \o ProvidedErrors(tmpl.parameters, providedParams.kids)

(***************************************************************************)
(* substituteParameters (Query.js:222-259).                                *)
(***************************************************************************)
\* `{{${paramName}}}` (Query.js:227).
Placeholder(paramName) == <<"{", "{">> \o paramName \o <<"}", "}">>

RegExpSpecials == {".", "*", "+", "?", "^", "$", "{", "}", "(", ")", "|", "[", "]", "\\"}

RECURSIVE EscapeRegExp(_)
\* placeholder.replace(/[.*+?^${}()|[\]\\]/g, '\\$&') (Query.js:228).
EscapeRegExp(s) ==
  IF s = <<>> THEN <<>>
  ELSE (IF Head(s) \in RegExpSpecials THEN <<"\\", Head(s)>> ELSE <<Head(s)>>)
       \o EscapeRegExp(Tail(s))

RECURSIVE PatternAtoms(_)
\* new RegExp(source, 'g') (Query.js:228): the atoms of a source without
\* quantifiers or groups.  "\c" is the literal c, "." any character, any
\* other character itself.
PatternAtoms(src) ==
  IF src = <<>> THEN <<>>
  ELSE IF Head(src) = "\\" /\ Len(src) >= 2
       THEN <<[any |-> FALSE, c |-> src[2]]>> \o PatternAtoms(Tail(Tail(src)))
  ELSE <<[any |-> Head(src) = ".", c |-> Head(src)]>> \o PatternAtoms(Tail(src))

MatchesAt(atoms, txt, i) ==
  /\ i + Len(atoms) - 1 <= Len(txt)
  /\ \A j \in 1..Len(atoms) : atoms[j].any \/ atoms[j].c = txt[i + j - 1]

\* The grave accent (U+0060).  It cannot stand alone between the quotes of
\* a string constant, so a text holds it as this element.
Grave == "U+0060"

Apostrophe == "'"

RECURSIVE ExpandReplacement(_, _, _, _)
\* The replacement string of String.prototype.replace: $$ is "$", $& the
\* match, $ with a grave accent the text before the match and $ with an
\* apostrophe the text after it.
ExpandReplacement(repl, matched, before, after) ==
  IF repl = <<>> THEN <<>>
  ELSE IF Head(repl) = "$" /\ Len(repl) >= 2 /\ repl[2] \in {"$", "&", Grave, Apostrophe}
       THEN (CASE repl[2] = "$" -> <<"$">>
               [] repl[2] = "&" -> matched
               [] repl[2] = Grave -> before
               [] repl[2] = Apostrophe -> after)
            \o ExpandReplacement(Tail(Tail(repl)), matched, before, after)
  ELSE <<Head(repl)>> \o ExpandReplacement(Tail(repl), matched, before, after)

\* The position of the first match at or after i, 0 when there is none.
NextMatch(txt, atoms, i) ==
  IF \E j \in i..Len(txt) : MatchesAt(atoms, txt, j)
  THEN CHOOSE j \in i..Len(txt) :
         MatchesAt(atoms, txt, j) /\ \A h \in i..(j - 1) : ~MatchesAt(atoms, txt, h)
  ELSE 0

RECURSIVE ReplaceFrom(_, _, _, _)
\* queryString.replace(regex, replacement) with the g flag, scanning from
\* i: the text up to the next match is kept, the match gives way to the
\* expanded replacement, and the scan goes on behind the match.
ReplaceFrom(txt, atoms, repl, i) ==
  LET j == NextMatch(txt, atoms, i)
  IN IF j = 0 THEN SubSeq(txt, i, Len(txt))
     ELSE SubSeq(txt, i, j - 1)
          \o ExpandReplacement(repl, SubSeq(txt, j, j + Len(atoms) - 1),
                               SubSeq(txt, 1, j - 1),
                               SubSeq(txt, j + Len(atoms), Len(txt)))
          \o ReplaceFrom(txt, atoms, repl, j + Len(atoms))

ReplaceAll(txt, paramName, repl) ==
  ReplaceFrom(txt, PatternAtoms(EscapeRegExp(Placeholder(paramName))), repl, 1)

\* Query.js:231-253: the value to insert, [ok, v]; ok = FALSE when the
\* ObjectId constructor throws.
SubstitutionValue(parameters, paramName, paramValue) ==
  LET d == FindParam(parameters, paramName)
  IN IF d = 0 THEN [ok |-> TRUE, v |-> paramValue]
     ELSE CASE parameters[d].type = "number"   -> [ok |-> TRUE, v |-> Number(paramValue)]
            [] parameters[d].type = "boolean"  -> [ok |-> TRUE, v |-> JBool(Boolean(paramValue))]
            [] parameters[d].type = "date"     -> [ok |-> TRUE, v |-> NewDate(paramValue)]
            [] parameters[d].type = "objectId" -> NewObjectId(paramValue)
            [] OTHER                           -> [ok |-> TRUE, v |-> paramValue]

RECURSIVE SubstituteEntries(_, _, _)
\* Query.js:226-256: the loop over Object.entries(parameters); [ok, s].
SubstituteEntries(parameters, entries, queryString) ==
  IF entries = <<>> THEN [ok |-> TRUE, s |-> queryString]
  ELSE LET sv == SubstitutionValue(parameters, Head(entries).k, Head(entries).v)
       IN IF ~sv.ok THEN [ok |-> FALSE, s |-> queryString]
          ELSE SubstituteEntries(parameters, Tail(entries),
                 ReplaceAll(queryString, Head(entries).k, JSONstringify(sv.v)))

\* Variant of substituteParameters that also fills the placeholders of
\* declared parameters the caller did not provide, with null.
substituteParametersFillMissing(tmpl, parameters) ==
  LET missing == SelectSeq(tmpl.parameters, LAMBDA d : ~HasOwnProperty(parameters, d.name))
      r == SubstituteEntries(tmpl.parameters, parameters.kids, JSONstringify(tmpl.query))
      f == SubstituteEntries(<<>>, [j \in 1..Len(missing) |-> Entry(missing[j].name, JNull)],
                             r.s)
      d == JSONparse(f.s)
  IN IF ~r.ok THEN [status |-> "BSONError", v |-> JNull]
     ELSE IF ~d.ok THEN [status |-> "SyntaxError", v |-> JNull]
     ELSE [status |-> "ok", v |-> d.v]

\* Variant of substituteParameters that first fills in the defaultValue of
\* every declared parameter the caller did not provide.
substituteParametersApplyDefaults(tmpl, parameters) ==
  LET defaulted == SelectSeq(tmpl.parameters,
                             LAMBDA d : /\ "defaultValue" \in DOMAIN d
                                        /\ ~HasOwnProperty(parameters, d.name))
      all == parameters.kids
             \o [j \in 1..Len(defaulted) |-> Entry(defaulted[j].name, defaulted[j].defaultValue)]
      r == SubstituteEntries(tmpl.parameters, all, JSONstringify(tmpl.query))
      d == JSONparse(r.s)
  IN IF parameters.t \in {"undefined", "null"} THEN [status |-> "TypeError", v |-> JNull]
     ELSE IF ~r.ok THEN [status |-> "BSONError", v |-> JNull]
     ELSE IF ~d.ok THEN [status |-> "SyntaxError", v |-> JNull]
     ELSE [status |-> "ok", v |-> d.v]

\* The outcome [status, v]: "ok" with the returned document, or the
\* exception that leaves the method ("TypeError" of Object.entries on
\* undefined or null, "BSONError", "SyntaxError").
substituteParameters(tmpl, parameters) ==
  LET r == SubstituteEntries(tmpl.parameters, parameters.kids, JSONstringify(tmpl.query))
      d == JSONparse(r.s)
  IN IF parameters.t \in {"undefined", "null"} THEN [status |-> "TypeError", v |-> JNull]
     ELSE IF ~r.ok THEN [status |-> "BSONError", v |-> JNull]
     ELSE IF ~d.ok THEN [status |-> "SyntaxError", v |-> JNull]
     ELSE [status |-> "ok", v |-> d.v]

(***************************************************************************)
(* recordExecution (Query.js:262-274).  averageExecutionTime is a          *)
(* JavaScript double; it is kept here as an integer count of 1/AvgScale    *)
(* milliseconds, which is exact for as many halvings as there are calls.   *)
(***************************************************************************)
MaxRequests == 3

RECURSIVE Pow2(_)
Pow2(n) == IF n = 0 THEN 1 ELSE 2 * Pow2(n - 1)

AvgScale == Pow2(MaxRequests)

\* lastExecuted has no default (Query.js:82-84): undefined until recorded.
NoDate == -1

\* The statistics fields of a new document (Query.js:78-88).
FreshStats == [executionCount |-> 0, lastExecuted |-> NoDate, averageExecutionTime |-> 0]

\* Variant of recordExecution that assigns 1 instead of adding 1.
recordExecutionAssignOne(doc, executionTime, date) ==
  [executionCount |-> 1,
   lastExecuted |-> date,
   averageExecutionTime |->
     IF doc.averageExecutionTime = 0
     THEN executionTime * AvgScale
     ELSE (doc.averageExecutionTime + executionTime * AvgScale) \div 2]

\* Variant of recordExecution that averages with the difference.
recordExecutionDifference(doc, executionTime, date) ==
  [executionCount |-> doc.executionCount + 1,
   lastExecuted |-> date,
   averageExecutionTime |->
     IF doc.averageExecutionTime = 0
     THEN executionTime * AvgScale
     ELSE (doc.averageExecutionTime - executionTime * AvgScale) \div 2]

\* The assignments of recordExecution to this, for the clock reading date.
recordExecution(doc, executionTime, date) ==
  [executionCount |-> doc.executionCount + 1,
   lastExecuted |-> date,
   averageExecutionTime |->
     IF doc.averageExecutionTime = 0
     THEN executionTime * AvgScale
     ELSE (doc.averageExecutionTime + executionTime * AvgScale) \div 2]

(***************************************************************************)
(* Inputs.  Names and string values are short so that the query text stays *)
(* small; the numbers are those of the range checks.                       *)
(***************************************************************************)
MaxProvided == 2

uni == <<"u", "n", "i">>

age == <<"a", "g", "e">>

flag == <<"o", "k">>

since == <<"a", "t">>

id == <<"i", "d">>

\* A key that no template declares.
other == <<"z", "z">>

sCo == JStr(<<"C", "o">>)

s42 == JStr(<<"4", "2">>)

sYear == JStr(<<"2", "0", "2", "0">>)

sHex == JStr(<<"5", "0", "7", "f", "1", "F", "7", "7", "b", "c", "f", "8",
               "6", "c", "d", "7", "9", "9", "4", "3", "9", "0", "1", "1">>)

MinAge == Validation(TRUE, 13, FALSE, 0, FALSE, <<>>)

MaxAge == Validation(FALSE, 0, TRUE, 120, FALSE, <<>>)

MinMaxAge == Validation(TRUE, 13, TRUE, 120, FALSE, <<>>)

EnumCo == Validation(FALSE, 0, FALSE, 0, TRUE, <<sCo.s, <<"K", "y">>>>)

\* enum: [13, 42] of a number parameter; the schema type [String]
\* (Query.js:37) stores the entries as the strings "13" and "42".
EnumAge == Validation(FALSE, 0, FALSE, 0, TRUE, <<NumberToString(13), NumberToString(42)>>)

ParamDefs ==
  {Param(uni, "string", r, v) : r \in BOOLEAN, v \in {NoValidation, EnumCo}}
  \cup {Param(age, "number", r, v) :
          r \in BOOLEAN, v \in {NoValidation, MinAge, MaxAge, MinMaxAge, EnumAge}}
  \cup {Param(flag, "boolean", r, NoValidation) : r \in BOOLEAN}
  \cup {Param(since, "date", r, NoValidation) : r \in BOOLEAN}
  \cup {Param(id, "objectId", r, NoValidation) : r \in BOOLEAN}

\* Second parameters of the two-parameter templates.
PairDefs ==
  {Param(uni, "string", TRUE, NoValidation),
   Param(age, "number", FALSE, MinMaxAge),
   Param(age, "number", TRUE, NoValidation)}

ParameterLists ==
  {<<>>} \cup {<<d>> : d \in ParamDefs}
  \cup {<<d1, d2>> : d1 \in ParamDefs, d2 \in PairDefs}

\* Values a caller provides for a parameter of the given declared type
\* ("" for a key that is not declared).
ValuesFor(type) ==
  CASE type = "string"   -> {sCo, s42, JNum(13)}
    [] type = "number"   -> {JNum(12), JNum(13), JNum(120), JNum(200), s42, sCo,
                             JStr(<<>>), JNull, JBool(TRUE), JArr(<<>>)}
    [] type = "boolean"  -> {JBool(TRUE), JBool(FALSE), sCo}
    [] type = "date"     -> {sYear, sCo}
    [] type = "objectId" -> {sHex, sCo, JNum(13)}
    [] OTHER             -> {sCo, JNum(13)}

QueryShapes == {"flat", "deep", "plain"}

RECURSIVE FlatFields(_)
\* {<name>: "{{<name>}}", ...}: each placeholder is a field value.
FlatFields(parameters) ==
  IF parameters = <<>> THEN <<>>
  ELSE ObjSet(FlatFields(SubSeq(parameters, 1, Len(parameters) - 1)),
              parameters[Len(parameters)].name,
              JStr(Placeholder(parameters[Len(parameters)].name)))

\* {"$and": [{<name>: {"$in": ["{{<name>}}", 7]}}, ...]}: placeholders in
\* arrays inside nested documents.
DeepClauses(parameters) ==
  [j \in 1..Len(parameters) |->
     Elem(JObj(<<Entry(parameters[j].name,
                       JObj(<<Entry(<<"$", "i", "n">>,
                                    JArr(<<Elem(JStr(Placeholder(parameters[j].name))),
                                           Elem(JNum(7))>>))>>))>>))]

active == <<"a", "c", "t", "i", "v", "e">>

QueryFor(parameters, shape) ==
  CASE shape = "flat" ->
         JObj(Append(FlatFields(parameters), Entry(active, JBool(TRUE))))
    [] shape = "deep" ->
         JObj(<<Entry(<<"$", "a", "n", "d">>, JArr(DeepClauses(parameters))),
                Entry(active, JBool(TRUE))>>)
    [] shape = "plain" ->
         JObj(<<Entry(active, JBool(TRUE)),
                Entry(<<"n">>, JNum(-10)),
                Entry(<<"t">>, JArr(<<Elem(JStr(<<"a", "\"", "\\", " ", "{">>)),
                                      Elem(JNull), Elem(JObj(<<>>))>>))>>)

Templates ==
  {[parameters |-> ps, query |-> QueryFor(ps, sh)] :
     ps \in ParameterLists, sh \in QueryShapes}

DeclaredNames(tmpl) == {tmpl.parameters[j].name : j \in 1..Len(tmpl.parameters)}

DeclaredType(tmpl, name) ==
  IF FindParam(tmpl.parameters, name) = 0 THEN ""
  ELSE tmpl.parameters[FindParam(tmpl.parameters, name)].type

RECURSIVE EntryLists(_, _)
\* The entry lists of at most n distinct keys, in every insertion order.
EntryLists(tmpl, n) ==
  IF n = 0 THEN {<<>>}
  ELSE LET shorter == EntryLists(tmpl, n - 1)
       IN shorter \cup
          UNION {UNION {{Append(m, Entry(k, v)) : v \in ValuesFor(DeclaredType(tmpl, k))} :
                        k \in (DeclaredNames(tmpl) \cup {other})
                              \ {m[j].k : j \in 1..Len(m)}} :
                 m \in shorter}

ParamMaps(tmpl) == {JObj(m) : m \in EntryLists(tmpl, MaxProvided)}

(***************************************************************************)
(* State.                                                                  *)
(***************************************************************************)
VARIABLES
  template,        \* the query document: [parameters, query]
  providedParams,  \* the caller's parameter map
  validated,       \* has validateParameters returned?
  raised,          \* the exception that left validateParameters, "" if none
  errors,          \* what it returned
  substituted,     \* outcome of substituteParameters, status "none" before
  stored,          \* the persisted statistics fields of the document
  req,             \* execution requests: [pc, doc, executionTime]
  now,             \* the clock, Date.now()
  overlapped,      \* history: did a request load while another held a copy?
  flow,            \* execute flows: [pc, parameters, doc, errors, reported,
                   \*   concrete, outcome, elapsed, calls]
  registry,        \* the stored templates of the collection, in insertion order
  found,           \* the last lookup and what it returned: [op, docs]
  client,          \* creation requests: [pc, name, data]
  pageQuery,       \* req.query handed to parsePagination: [page, limit]
  pagination,      \* what parsePagination returned: [done, page, limit, skip]
  cart,            \* a cart document in memory: [items, totalAmount, status,
                   \*   completedAt]
  cartStored,      \* the cart as the last successful save wrote it
  cartSaved,       \* outcome of the last cart operation's save
  userDb,          \* the users collection: the stored data of each user
  usersCache,      \* the 'users' cache: entry of each key, or Absent
  svc              \* calls of the user service: [pc, op, userId, data, user,
                   \*   result]

vars == <<template, providedParams, validated, raised, errors, substituted, stored, req,
          now, overlapped, flow, registry, found, client, pageQuery, pagination, cart,
          cartStored, cartSaved, userDb, usersCache, svc>>

flowVars == <<flow>>

registryVars == <<registry, found, client>>

pageVars == <<pageQuery, pagination>>

cartVars == <<cart, cartStored, cartSaved>>

userVars == <<userDb, usersCache, svc>>

serviceVars == <<pageVars, cartVars, userVars>>

queryVars == <<template, providedParams, validated, raised, errors, substituted>>

recorderVars == <<stored, req, now, overlapped>>

Requests == 1..MaxRequests

MaxTime == 3

ElapsedTimes == {0, 120, 240}

NotSubstituted == [status |-> "none", v |-> JNull]

MaxFlows == 2

Flows == 1..MaxFlows

IdleFlow ==
  [pc |-> "idle", parameters |-> JObj(<<>>), doc |-> FreshStats, errors |-> <<>>,
   reported |-> <<>>, concrete |-> NotSubstituted, outcome |-> "none", elapsed |-> 0,
   calls |-> <<>>]

FlowRest == flow = [r \in Flows |-> IdleFlow]

MaxClients == 2

Clients == 1..MaxClients

RegistryRest ==
  /\ registry = <<>>
  /\ found = [op |-> "none", docs |-> <<>>]
  /\ client = [c \in Clients |-> [pc |-> "idle", name |-> <<>>, data |-> <<>>]]

\* parsePagination has not been called.
NoPagination == [done |-> FALSE, page |-> JNull, limit |-> JNull, skip |-> JNull]

PageRest ==
  /\ pageQuery = [page |-> JUndefined, limit |-> JUndefined]
  /\ pagination = NoPagination

\* new Cart({...}): no items, totalAmount 0, status 'ACTIVE', no
\* completedAt (Cart.js:54-76).
\* made counts the item ids the document has handed out.
NewCart ==
  [items |-> <<>>, totalAmount |-> 0, status |-> "ACTIVE", completedAt |-> NoDate,
   made |-> 0]

CartRest ==
  /\ cart = NewCart
  /\ cartStored = NewCart
  /\ cartSaved = "none"

\* The user the calls are about.
UserIds == {"u1"}

MaxCalls == 3

Calls == 1..MaxCalls

\* A user document as toJSON gives it: the fields an update can change.
User(name, isActive) == [name |-> name, active |-> isActive]

NoUser == User(0, FALSE)

\* No entry under the key (cache.get returns undefined), and an entry.
Absent == [present |-> FALSE, value |-> NoUser]

Cached(value) == [present |-> TRUE, value |-> value]

\* `user:${userId}`, the key of a user in the 'users' cache.
UserKey(userId) == <<"user", userId>>

CacheKeys == {UserKey(u) : u \in UserIds}

IdleCall ==
  [pc |-> "idle", op |-> "none", userId |-> "", data |-> 0, user |-> NoUser,
   result |-> NoUser]

UserRest ==
  /\ userDb = [u \in UserIds |-> User(1, TRUE)]
  /\ usersCache = [k \in CacheKeys |-> Absent]
  /\ svc = [c \in Calls |-> IdleCall]

ServiceRest == PageRest /\ CartRest /\ UserRest

RecorderInit ==
  /\ stored = FreshStats
  /\ req = [r \in Requests |-> [pc |-> "idle", doc |-> FreshStats, executionTime |-> 0]]
  /\ now = 1
  /\ overlapped = FALSE

(***************************************************************************)
(* Validator and substitution engine applied to drawn inputs.              *)
(***************************************************************************)
Init ==
  /\ template \in Templates
  /\ providedParams \in ParamMaps(template) \cup {JUndefined}
  /\ validated = FALSE
  /\ raised = ""
  /\ errors = <<>>
  /\ substituted = NotSubstituted
  /\ RecorderInit
  /\ FlowRest
  /\ RegistryRest
  /\ ServiceRest

Validate ==
  /\ ~validated
  /\ raised = ""
  /\ IF validateParametersThrows(template, providedParams)
     THEN /\ raised' = "TypeError"
          /\ UNCHANGED <<validated, errors>>
     ELSE /\ errors' = validateParameters(template, providedParams)
          /\ validated' = TRUE
          /\ UNCHANGED raised
  /\ UNCHANGED <<template, providedParams, substituted, recorderVars, flowVars, registryVars,
               serviceVars>>

Substitute ==
  /\ substituted.status = "none"
  /\ substituted' = substituteParameters(template, providedParams)
  /\ UNCHANGED <<template, providedParams, validated, raised, errors, recorderVars, flowVars,
               registryVars, serviceVars>>

Next == Validate \/ Substitute

Spec == Init /\ [][Next]_vars

(***************************************************************************)
(* Templates and maps for the placeholder tokens: keys of which one is a   *)
(* prefix of another, placeholders at several depths, keys without a       *)
(* parameter definition, a parameter with a defaultValue, and string       *)
(* values that hold a placeholder or a "$" pattern of String.replace.      *)
(***************************************************************************)
keyA == <<"a">>

keyB == <<"b">>

keyAB == <<"a", "b">>

\* A parameter definition with a defaultValue (Query.js:30-32).
ParamWithDefault(name, type, required, validation, defaultValue) ==
  [name |-> name, type |-> type, required |-> required, validation |-> validation,
   defaultValue |-> defaultValue]

TokenParameterLists ==
  {<<>>,
   <<Param(keyA, "number", TRUE, NoValidation)>>,
   <<Param(keyA, "number", TRUE, NoValidation), Param(keyB, "string", FALSE, NoValidation)>>,
   <<Param(keyA, "number", TRUE, NoValidation),
     ParamWithDefault(keyAB, "string", FALSE, NoValidation, sCo)>>}

\* {x: "{{a}}", y: "{{ab}}"}
FieldsQuery ==
  JObj(<<Entry(<<"x">>, JStr(Placeholder(keyA))), Entry(<<"y">>, JStr(Placeholder(keyAB)))>>)

\* {tags: ["{{a}}", {z: "{{a}}"}], n: "{{b}}"}
NestedQuery ==
  JObj(<<Entry(<<"t", "a", "g", "s">>,
               JArr(<<Elem(JStr(Placeholder(keyA))),
                      Elem(JObj(<<Entry(<<"z">>, JStr(Placeholder(keyA)))>>))>>)),
         Entry(<<"n">>, JStr(Placeholder(keyB)))>>)

\* {tags: ["{{b}}"]}
ListQuery == JObj(<<Entry(<<"t", "a", "g", "s">>, JArr(<<Elem(JStr(Placeholder(keyB)))>>))>>)

TokenQueries == {FieldsQuery, NestedQuery, ListQuery}

TokenTemplates ==
  {[parameters |-> ps, query |-> q] : ps \in TokenParameterLists, q \in TokenQueries}

\* A comma, the text before the match, key's placeholder, the text after
\* the match, a comma.
Splice(key) == JStr(<<",", "$", Grave>> \o Placeholder(key) \o <<"$", Apostrophe, ",">>)

\* Values the caller provides under the key: for a, values without a "$"
\* pattern; for b also values that hold a's or b's placeholder.
TokenValues(key) ==
  {JNum(5), JBool(TRUE), sCo, JStr(<<",">>), JStr(Placeholder(keyA))}
  \cup (IF key = keyB
        THEN {JStr(<<",">> \o Placeholder(keyA) \o <<",">>), Splice(keyA), Splice(keyB)}
        ELSE {})

RECURSIVE TokenEntryLists(_)
\* The entry lists of at most n of the keys a and b, in every insertion order.
TokenEntryLists(n) ==
  IF n = 0 THEN {<<>>}
  ELSE LET shorter == TokenEntryLists(n - 1)
       IN shorter \cup
          UNION {UNION {{Append(m, Entry(k, v)) : v \in TokenValues(k)} :
                        k \in {keyA, keyB} \ {m[j].k : j \in 1..Len(m)}} :
                 m \in shorter}

TokenMaps == {JObj(m) : m \in TokenEntryLists(MaxProvided)}

TokenInit ==
  /\ template \in TokenTemplates
  /\ providedParams \in TokenMaps
  /\ validated = FALSE
  /\ raised = ""
  /\ errors = <<>>
  /\ substituted = NotSubstituted
  /\ RecorderInit
  /\ FlowRest
  /\ RegistryRest
  /\ ServiceRest

TokenSpec == TokenInit /\ [][Next]_vars

(***************************************************************************)
(* Execution requests on one stored template.  A request loads the         *)
(* document, and after the query ran calls recordExecution on its copy,    *)
(* which saves the assigned fields.                                        *)
(***************************************************************************)
FindByUni ==
  [parameters |-> <<Param(uni, "string", TRUE, NoValidation)>>,
   query |-> QueryFor(<<Param(uni, "string", TRUE, NoValidation)>>, "flat")]

ExecInit ==
  /\ template = FindByUni
  /\ providedParams = JObj(<<>>)
  /\ validated = FALSE
  /\ raised = ""
  /\ errors = <<>>
  /\ substituted = NotSubstituted
  /\ RecorderInit
  /\ FlowRest
  /\ RegistryRest
  /\ ServiceRest

Load(r) ==
  /\ req[r].pc = "idle"
  /\ req' = [req EXCEPT ![r].pc = "loaded", ![r].doc = stored]
  /\ overlapped' = (overlapped \/ \E o \in Requests : req[o].pc = "loaded")
  /\ UNCHANGED <<queryVars, stored, now, flowVars, registryVars,
               serviceVars>>

\* Variant of RecordExecution that updates the stored statistics in place
\* (an atomic increment) instead of the copy the request loaded.
RecordExecutionAtomic(r, executionTime) ==
  /\ req[r].pc = "loaded"
  /\ LET doc == recordExecution(stored, executionTime, now)
     IN /\ req' = [req EXCEPT ![r].pc = "done", ![r].doc = doc,
                              ![r].executionTime = executionTime]
        /\ stored' = doc
  /\ UNCHANGED <<queryVars, now, overlapped, flowVars, registryVars,
               serviceVars>>

RecordExecution(r, executionTime) ==
  /\ req[r].pc = "loaded"
  /\ LET doc == recordExecution(req[r].doc, executionTime, now)
     IN /\ req' = [req EXCEPT ![r].pc = "done", ![r].doc = doc,
                              ![r].executionTime = executionTime]
        /\ stored' = doc
  /\ UNCHANGED <<queryVars, now, overlapped, flowVars, registryVars,
               serviceVars>>

Tick ==
  /\ now < MaxTime
  /\ now' = now + 1
  /\ UNCHANGED <<queryVars, stored, req, overlapped, flowVars, registryVars,
               serviceVars>>

ExecNext ==
  \/ \E r \in Requests : Load(r)
  \/ \E r \in Requests, e \in ElapsedTimes : RecordExecution(r, e)
  \/ Tick

ExecSpec == ExecInit /\ [][ExecNext]_vars

(***************************************************************************)
(* The execute flow of one request: load the template, validate, on        *)
(* success substitute, hand the concrete query to the executor, and after  *)
(* a successful run record the execution.  calls lists the operations the  *)
(* request has invoked, outcome is the executor's.                         *)
(***************************************************************************)
FindByAgeUni ==
  LET ps == <<Param(age, "number", TRUE, MinMaxAge), Param(uni, "string", FALSE, NoValidation)>>
  IN [parameters |-> ps, query |-> QueryFor(ps, "flat")]

\* The parameters of the requests: none at all, an empty map, a valid
\* map, a map with two errors, and a valid map whose substitution raises.
FlowParams ==
  {JUndefined,
   JObj(<<>>),
   JObj(<<Entry(age, JNum(13))>>),
   JObj(<<Entry(age, JNum(200)), Entry(other, sCo)>>),
   JObj(<<Entry(age, JNum(13)), Entry(uni, sCo)>>)}

FlowInit ==
  /\ template = FindByAgeUni
  /\ providedParams = JObj(<<>>)
  /\ validated = FALSE
  /\ raised = ""
  /\ errors = <<>>
  /\ substituted = NotSubstituted
  /\ RecorderInit
  /\ FlowRest
  /\ RegistryRest
  /\ ServiceRest

flowFrame == <<queryVars, req, now, overlapped, registryVars, serviceVars>>

FlowLoad(r, parameters) ==
  /\ flow[r].pc = "idle"
  /\ flow' = [flow EXCEPT ![r].pc = "loaded", ![r].parameters = parameters,
                          ![r].doc = stored]
  /\ UNCHANGED <<flowFrame, stored>>

\* Variant of FlowValidate that goes on to substitution whatever the
\* validator returned.
FlowValidateIgnoresErrors(r) ==
  /\ flow[r].pc = "loaded"
  /\ ~validateParametersThrows(template, flow[r].parameters)
  /\ flow' = [flow EXCEPT ![r].calls = Append(@, "validateParameters"),
                          ![r].errors = validateParameters(template, flow[r].parameters),
                          ![r].pc = "validated"]
  /\ UNCHANGED <<flowFrame, stored>>

FlowValidate(r) ==
  /\ flow[r].pc = "loaded"
  /\ IF validateParametersThrows(template, flow[r].parameters)
     THEN flow' = [flow EXCEPT ![r].calls = Append(@, "validateParameters"),
                               ![r].pc = "failed"]
     ELSE LET e == validateParameters(template, flow[r].parameters)
          IN flow' = [flow EXCEPT ![r].calls = Append(@, "validateParameters"),
                                  ![r].errors = e,
                                  ![r].reported = e,
                                  ![r].pc = IF e = <<>> THEN "validated" ELSE "rejected"]
  /\ UNCHANGED <<flowFrame, stored>>

\* Variant of FlowSubstitute that writes the concrete query into the
\* template instead of returning a copy.
FlowSubstituteInPlace(r) ==
  /\ flow[r].pc = "validated"
  /\ LET s == substituteParameters(template, flow[r].parameters)
     IN /\ flow' = [flow EXCEPT ![r].calls = Append(@, "substituteParameters"),
                                ![r].concrete = s,
                                ![r].pc = IF s.status = "ok" THEN "substituted" ELSE "failed"]
        /\ template' = IF s.status = "ok" THEN [template EXCEPT !.query = s.v] ELSE template
  /\ UNCHANGED <<providedParams, validated, raised, errors, substituted, req, now,
                 overlapped, registryVars, serviceVars, stored>>

FlowSubstitute(r) ==
  /\ flow[r].pc = "validated"
  /\ LET s == substituteParameters(template, flow[r].parameters)
     IN flow' = [flow EXCEPT ![r].calls = Append(@, "substituteParameters"),
                             ![r].concrete = s,
                             ![r].pc = IF s.status = "ok" THEN "substituted" ELSE "failed"]
  /\ UNCHANGED <<flowFrame, stored>>

\* Variant of FlowExecute that goes on to the recorder after a failed run
\* too.
FlowExecuteThenRecord(r, succeeded, executionTime) ==
  /\ flow[r].pc = "substituted"
  /\ flow' = [flow EXCEPT ![r].calls = Append(@, "executor"),
                          ![r].outcome = IF succeeded THEN "ok" ELSE "error",
                          ![r].elapsed = executionTime,
                          ![r].pc = "executed"]
  /\ UNCHANGED <<flowFrame, stored>>

\* The external executor runs the concrete query; it succeeds after
\* executionTime milliseconds or fails.
FlowExecute(r, succeeded, executionTime) ==
  /\ flow[r].pc = "substituted"
  /\ flow' = [flow EXCEPT ![r].calls = Append(@, "executor"),
                          ![r].outcome = IF succeeded THEN "ok" ELSE "error",
                          ![r].elapsed = IF succeeded THEN executionTime ELSE 0,
                          ![r].pc = IF succeeded THEN "executed" ELSE "failed"]
  /\ UNCHANGED <<flowFrame, stored>>

FlowRecord(r) ==
  /\ flow[r].pc = "executed"
  /\ LET doc == recordExecution(flow[r].doc, flow[r].elapsed, now)
     IN /\ flow' = [flow EXCEPT ![r].calls = Append(@, "recordExecution"),
                                ![r].doc = doc,
                                ![r].pc = "done"]
        /\ stored' = doc
  /\ UNCHANGED flowFrame

FlowNext ==
  \/ \E r \in Flows, parameters \in FlowParams : FlowLoad(r, parameters)
  \/ \E r \in Flows : FlowValidate(r)
  \/ \E r \in Flows : FlowSubstitute(r)
  \/ \E r \in Flows, succeeded \in BOOLEAN, e \in ElapsedTimes : FlowExecute(r, succeeded, e)
  \/ \E r \in Flows : FlowRecord(r)
  \/ Tick

FlowSpec == FlowInit /\ [][FlowNext]_vars

(***************************************************************************)
(* The collection of stored templates: creation under the unique index on  *)
(* name, soft delete, and the lookups of the model (Query.js:128-152,      *)
(* 321-326).  A stored document is [name, description, collection,         *)
(* category, tags, active, executionCount, lastExecuted,                   *)
(* averageExecutionTime].                                                  *)
(***************************************************************************)
\* String.prototype.trim, the setter of trim: true (Query.js:48).
Trim(str) == TrimRight(TrimLeft(str))

UpperLetters ==
  <<"A", "B", "C", "D", "E", "F", "G", "H", "I", "J", "K", "L", "M",
    "N", "O", "P", "Q", "R", "S", "T", "U", "V", "W", "X", "Y", "Z">>

LowerLetters ==
  <<"a", "b", "c", "d", "e", "f", "g", "h", "i", "j", "k", "l", "m",
    "n", "o", "p", "q", "r", "s", "t", "u", "v", "w", "x", "y", "z">>

LowerCase(c) ==
  IF \E j \in 1..Len(UpperLetters) : UpperLetters[j] = c
  THEN LowerLetters[CHOOSE j \in 1..Len(UpperLetters) : UpperLetters[j] = c]
  ELSE c

ToLowerCase(str) == [j \in 1..Len(str) |-> LowerCase(str[j])]

\* new RegExp(searchTerm, 'i') tested on a text (Query.js:146-148): the
\* term is a pattern, found anywhere in the text, letters compared without
\* case.
RegExpTestIgnoreCase(searchTerm, txt) ==
  \E i \in 1..(Len(txt) + 1) :
    MatchesAt(PatternAtoms(ToLowerCase(searchTerm)), ToLowerCase(txt), i)

\* What a creation request sends: name, description, collection,
\* category, tags.
TemplateData ==
  {[name |-> <<" ", "q", "1", " ">>, description |-> <<"b", "y", " ", "u", "n", "i">>,
    collection |-> "users", category |-> "search", tags |-> <<<<"u", "n", "i">>>>],
   [name |-> <<"q", "1">>, description |-> <<"t", "o", "p">>,
    collection |-> "carts", category |-> "filter", tags |-> <<>>],
   [name |-> <<"Q", "1">>, description |-> <<"o", "l", "d">>,
    collection |-> "users", category |-> "search", tags |-> <<<<"t", "o", "p">>>>]}

Collections == {"users", "carts"}

Categories == {"search", "filter"}

SearchTerms == {<<"q">>, <<"T", "O", "P">>, <<"u", ".", "i">>}

MaxLimit == 2

MaxExecutions == 1

\* new Query(data): the setters trim the name, active defaults to true and
\* the statistics to their defaults (Query.js:44-88).
NewQuery(data) ==
  [name |-> Trim(data.name), description |-> Trim(data.description),
   collection |-> data.collection, category |-> data.category, tags |-> data.tags,
   active |-> TRUE, executionCount |-> 0, lastExecuted |-> NoDate,
   averageExecutionTime |-> 0]

\* Variant of UniqueIndexAllows for a collection without the unique index.
UniqueIndexAbsent(docs, name) == TRUE

\* The unique index on name (Query.js:47, 105) admits a document iff no
\* stored document has the same name.
UniqueIndexAllows(docs, name) ==
  \A i \in 1..Len(docs) : docs[i].name # name

\* find({active: true}) (Query.js:128-130).
findActive(docs) == SelectSeq(docs, LAMBDA d : d.active)

\* find({collection, active: true}) (Query.js:133-135).
findByCollection(docs, collection) ==
  SelectSeq(docs, LAMBDA d : d.collection = collection /\ d.active)

\* find({category, active: true}) (Query.js:138-140).
findByCategory(docs, category) ==
  SelectSeq(docs, LAMBDA d : d.category = category /\ d.active)

\* Variant of search that forgets the active filter.
searchAnyState(docs, searchTerm) ==
  SelectSeq(docs, LAMBDA d :
    \/ RegExpTestIgnoreCase(searchTerm, d.name)
    \/ RegExpTestIgnoreCase(searchTerm, d.description)
    \/ \E j \in 1..Len(d.tags) : RegExpTestIgnoreCase(searchTerm, d.tags[j]))

\* find({$or: [name, description, tags match the term], active: true})
\* (Query.js:143-152).
search(docs, searchTerm) ==
  SelectSeq(docs, LAMBDA d :
    /\ \/ RegExpTestIgnoreCase(searchTerm, d.name)
       \/ RegExpTestIgnoreCase(searchTerm, d.description)
       \/ \E j \in 1..Len(d.tags) : RegExpTestIgnoreCase(searchTerm, d.tags[j])
    /\ d.active)

\* select('name description collection category executionCount
\* lastExecuted') (Query.js:325).
Selected(d) ==
  [name |-> d.name, description |-> d.description, collection |-> d.collection,
   category |-> d.category, executionCount |-> d.executionCount,
   lastExecuted |-> d.lastExecuted]

\* find({active: true}).sort({executionCount: -1}).limit(limit).select(...)
\* (Query.js:321-326): the set of possible results; the order among equal
\* counts is the database's choice.
getPopularQueries(docs, limit) ==
  LET act == {i \in 1..Len(docs) : docs[i].active}
      n == IF Cardinality(act) < limit THEN Cardinality(act) ELSE limit
      picks == {p \in [1..n -> act] :
                  /\ \A a, b \in 1..n : a # b => p[a] # p[b]
                  /\ \A a, b \in 1..n :
                       a < b => docs[p[a]].executionCount >= docs[p[b]].executionCount
                  /\ \A i \in act \ {p[a] : a \in 1..n} :
                       \A a \in 1..n : docs[p[a]].executionCount >= docs[i].executionCount}
  IN {[a \in 1..n |-> Selected(docs[p[a]])] : p \in picks}

\* The positions a stored template can have: one per distinct name.
Slots == 1..Cardinality({NewQuery(data).name : data \in TemplateData})

RegistryInit ==
  /\ template = FindByUni
  /\ providedParams = JObj(<<>>)
  /\ validated = FALSE
  /\ raised = ""
  /\ errors = <<>>
  /\ substituted = NotSubstituted
  /\ RecorderInit
  /\ FlowRest
  /\ RegistryRest
  /\ ServiceRest

registryFrame == <<queryVars, recorderVars, flowVars, serviceVars>>

\* A creation request builds its document.
CreateBuild(c, data) ==
  /\ client[c].pc = "idle"
  /\ client' = [client EXCEPT ![c] = [pc |-> "built", name |-> NewQuery(data).name,
                                      data |-> data]]
  /\ UNCHANGED <<registryFrame, registry, found>>

\* save() inserts the document; the unique index rejects a duplicate name
\* (E11000) and the collection stays as it was.
CreateSave(c) ==
  /\ client[c].pc = "built"
  /\ IF UniqueIndexAllows(registry, client[c].name)
     THEN /\ registry' = Append(registry, NewQuery(client[c].data))
          /\ client' = [client EXCEPT ![c].pc = "created"]
     ELSE /\ registry' = registry
          /\ client' = [client EXCEPT ![c].pc = "conflict"]
  /\ UNCHANGED <<registryFrame, found>>

\* One creation request from construction to save, no other request in
\* between.
Create(data) ==
  /\ UniqueIndexAllows(registry, NewQuery(data).name)
  /\ registry' = Append(registry, NewQuery(data))
  /\ UNCHANGED <<registryFrame, found, client>>

\* Soft delete: the document is kept with active = false.
Deactivate(i) ==
  /\ i \in 1..Len(registry)
  /\ registry[i].active
  /\ registry' = [registry EXCEPT ![i].active = FALSE]
  /\ UNCHANGED <<registryFrame, found, client>>

\* An execution of stored template i is recorded.
RegistryRecord(i) ==
  /\ i \in 1..Len(registry)
  /\ registry[i].executionCount < MaxExecutions
  /\ LET st == recordExecution(registry[i], 120, now)
     IN registry' = [registry EXCEPT ![i].executionCount = st.executionCount,
                                     ![i].lastExecuted = st.lastExecuted,
                                     ![i].averageExecutionTime = st.averageExecutionTime]
  /\ UNCHANGED <<registryFrame, found, client>>

FindActive ==
  /\ found' = [op |-> "findActive", docs |-> findActive(registry)]
  /\ UNCHANGED <<registryFrame, registry, client>>

FindByCollection(collection) ==
  /\ found' = [op |-> "findByCollection", docs |-> findByCollection(registry, collection)]
  /\ UNCHANGED <<registryFrame, registry, client>>

FindByCategory(category) ==
  /\ found' = [op |-> "findByCategory", docs |-> findByCategory(registry, category)]
  /\ UNCHANGED <<registryFrame, registry, client>>

Search(searchTerm) ==
  /\ found' = [op |-> "search", docs |-> search(registry, searchTerm)]
  /\ UNCHANGED <<registryFrame, registry, client>>

GetPopularQueries(limit) ==
  /\ \E docs \in getPopularQueries(registry, limit) :
       found' = [op |-> "getPopularQueries", docs |-> docs]
  /\ UNCHANGED <<registryFrame, registry, client>>

Lookup ==
  \/ FindActive
  \/ \E collection \in Collections : FindByCollection(collection)
  \/ \E category \in Categories : FindByCategory(category)
  \/ \E searchTerm \in SearchTerms : Search(searchTerm)
  \/ \E limit \in 1..MaxLimit : GetPopularQueries(limit)

RegistryNext ==
  \/ \E data \in TemplateData : Create(data)
  \/ \E i \in Slots : Deactivate(i)
  \/ \E i \in Slots : RegistryRecord(i)
  \/ Lookup

RegistrySpec == RegistryInit /\ [][RegistryNext]_vars

\* Creation requests that run at the same time, and soft deletes.
CreateNext ==
  \/ \E c \in Clients, data \in TemplateData : CreateBuild(c, data)
  \/ \E c \in Clients : CreateSave(c)
  \/ \E i \in Slots : Deactivate(i)

CreateSpec == RegistryInit /\ [][CreateNext]_vars

(***************************************************************************)
(* parsePagination (helpers.js:30-46) with the PAGINATION constants        *)
(* (constants.js:79-85).  Numbers are JavaScript doubles; the inputs here  *)
(* stay in the range where they are exact integers.                        *)
(***************************************************************************)
DEFAULT_PAGE == 1

DEFAULT_LIMIT == 10

MAX_LIMIT == 100

LowerHexChars ==
  <<"0", "1", "2", "3", "4", "5", "6", "7", "8", "9", "a", "b", "c", "d", "e", "f">>

HexVal(c) == (CHOOSE d \in 1..16 : LowerHexChars[d] = LowerHex(c)) - 1

RECURSIVE RadixValue(_, _, _)
RadixValue(ds, radix, acc) ==
  IF ds = <<>> THEN acc ELSE RadixValue(Tail(ds), radix, acc * radix + HexVal(Head(ds)))

RECURSIVE DigitPrefix(_, _)
\* The longest prefix of the text made of digits of the radix.
DigitPrefix(txt, radix) ==
  IF txt # <<>> /\ (IF radix = 16 THEN Head(txt) \in HexChars ELSE IsDigit(Head(txt)))
  THEN <<Head(txt)>> \o DigitPrefix(Tail(txt), radix)
  ELSE <<>>

\* ToString of a query value: undefined is the text "undefined".
QueryToString(v) ==
  IF v.t = "undefined" THEN <<"u", "n", "d", "e", "f", "i", "n", "e", "d">>
  ELSE JSToString(v)

\* parseInt(value) without a radix: leading white space is skipped, a sign
\* is read, "0x" selects radix 16, then the longest run of digits is the
\* number; NaN if there is none.
parseInt(v) ==
  LET txt == TrimLeft(QueryToString(v))
      signed == txt # <<>> /\ Head(txt) \in {"-", "+"}
      body == IF signed THEN Tail(txt) ELSE txt
      hex == Len(body) >= 2 /\ body[1] = "0" /\ body[2] \in {"x", "X"}
      radix == IF hex THEN 16 ELSE 10
      ds == DigitPrefix(IF hex THEN Tail(Tail(body)) ELSE body, radix)
      n == RadixValue(ds, radix, 0)
  IN IF ds = <<>> THEN JNaN
     ELSE JNum(IF signed /\ Head(txt) = "-" THEN 0 - n ELSE n)

\* a || b
LogicalOr(a, b) == IF Boolean(a) THEN a ELSE b

\* Math.max(a, b) and Math.min(a, b) of two numbers; NaN if one is NaN.
MathMax(a, b) ==
  IF a.t = "nan" \/ b.t = "nan" THEN JNaN ELSE IF a.n >= b.n THEN a ELSE b

MathMin(a, b) ==
  IF a.t = "nan" \/ b.t = "nan" THEN JNaN ELSE IF a.n <= b.n THEN a ELSE b

\* Variant of parsePagination that does not raise a limit below 1.
parsePaginationNoFloor(query) ==
  LET page == MathMax(JNum(1), LogicalOr(parseInt(query.page), JNum(DEFAULT_PAGE)))
      limit == MathMin(JNum(MAX_LIMIT),
                       LogicalOr(parseInt(query.limit), JNum(DEFAULT_LIMIT)))
  IN [done |-> TRUE, page |-> page, limit |-> limit,
      skip |-> JNum((page.n - 1) * limit.n)]

\* helpers.js:31-36 and 40-45: page, limit and skip of the result.
parsePagination(query) ==
  LET page == MathMax(JNum(1), LogicalOr(parseInt(query.page), JNum(DEFAULT_PAGE)))
      limit == MathMin(JNum(MAX_LIMIT),
                       MathMax(JNum(1),
                               LogicalOr(parseInt(query.limit), JNum(DEFAULT_LIMIT))))
  IN [done |-> TRUE, page |-> page, limit |-> limit,
      skip |-> JNum((page.n - 1) * limit.n)]

\* What a request can carry as page or limit: nothing, texts, and the
\* array of a repeated query parameter.
PageValues ==
  {JUndefined,
   JStr(<<>>),
   JStr(<<"3">>),
   JStr(<<"2", "0">>),
   JStr(<<"0">>),
   JStr(<<"-", "5">>),
   JStr(<<"1", "0", "0", "0">>),
   JStr(<<" ", "7">>),
   JStr(<<"3", ".", "7">>),
   JStr(<<"1", "2", "a", "b", "c">>),
   JStr(<<"0", "x", "1", "0">>),
   JStr(<<"a", "b", "c">>),
   JArr(<<Elem(JStr(<<"3">>)), Elem(JStr(<<"4">>))>>)}

PageInit ==
  /\ template = FindByUni
  /\ providedParams = JObj(<<>>)
  /\ validated = FALSE
  /\ raised = ""
  /\ errors = <<>>
  /\ substituted = NotSubstituted
  /\ RecorderInit
  /\ FlowRest
  /\ RegistryRest
  /\ CartRest
  /\ UserRest
  /\ pageQuery \in [page : PageValues, limit : PageValues]
  /\ pagination = NoPagination

ParsePagination ==
  /\ ~pagination.done
  /\ pagination' = parsePagination(pageQuery)
  /\ UNCHANGED <<queryVars, recorderVars, flowVars, registryVars, pageQuery, cartVars,
                 userVars>>

PageNext == ParsePagination

PageSpec == PageInit /\ [][PageNext]_vars

(***************************************************************************)
(* The cart document (Cart.js).  An item is [id, productId, quantity,      *)
(* price]; save() validates the document, then runs the pre-save hook,     *)
(* then writes it.  Prices are whole numbers here.                         *)
(***************************************************************************)
QUANTITY_MIN == 1

QUANTITY_MAX == 1000

PRICE_MIN == 0

MaxItemIds == 2

MaxQuantity == 2000

ProductIds == {"p1", "p2"}

\* The quantities and prices of addItem, the quantities of
\* updateItemQuantity.
AddQuantities == {1000}

Prices == {0, 5}

NewQuantities == {0, 3}

RECURSIVE SumItems(_)
\* items.reduce((total, item) => total + item.quantity * item.price, 0)
\* (Cart.js:119-121).
SumItems(items) ==
  IF items = <<>> THEN 0
  ELSE SumItems(SubSeq(items, 1, Len(items) - 1))
       + items[Len(items)].quantity * items[Len(items)].price

\* The schema validators of the items and of totalAmount (Cart.js:22-32,
\* 55-59).
ValidCart(doc) ==
  /\ \A j \in 1..Len(doc.items) :
       /\ doc.items[j].quantity >= QUANTITY_MIN
       /\ doc.items[j].quantity <= QUANTITY_MAX
       /\ doc.items[j].price >= PRICE_MIN
  /\ doc.totalAmount >= 0

\* Variant of preSave that leaves totalAmount alone when the cart has no
\* items.
preSaveNonEmptyOnly(doc, date) ==
  [doc EXCEPT !.totalAmount = IF Len(doc.items) > 0 THEN SumItems(doc.items) ELSE @,
              !.completedAt = IF doc.status = "COMPLETED" /\ @ = NoDate THEN date ELSE @]

\* cartSchema.pre('save') (Cart.js:117-132).
preSave(doc, date) ==
  [doc EXCEPT !.totalAmount = IF Len(doc.items) > 0 THEN SumItems(doc.items) ELSE 0,
              !.completedAt = IF doc.status = "COMPLETED" /\ @ = NoDate THEN date ELSE @]

\* The index of the item with the product id, 0 if none (findIndex,
\* Cart.js:152-154).
FindProduct(items, productId) ==
  IF \E j \in 1..Len(items) : items[j].productId = productId
  THEN CHOOSE j \in 1..Len(items) :
         /\ items[j].productId = productId
         /\ \A h \in 1..(j - 1) : items[h].productId # productId
  ELSE 0

\* this.save(): a document that fails validation is rejected, stays as
\* the method left it and is not written.
CartSave(doc) ==
  IF ValidCart(doc)
  THEN /\ cart' = preSave(doc, now)
       /\ cartStored' = preSave(doc, now)
       /\ cartSaved' = "ok"
  ELSE /\ cart' = doc
       /\ cartStored' = cartStored
       /\ cartSaved' = "ValidationError"

cartFrame == <<queryVars, recorderVars, flowVars, registryVars, pageVars, userVars>>

\* addItem (Cart.js:150-166).
AddItem(productId, quantity, price) ==
  /\ LET i == FindProduct(cart.items, productId)
     IN IF i > 0
        THEN /\ cart.items[i].quantity + quantity <= MaxQuantity
             /\ CartSave([cart EXCEPT !.items[i].quantity = @ + quantity,
                                      !.items[i].price = price])
        ELSE /\ cart.made < MaxItemIds
             /\ CartSave([cart EXCEPT !.items = Append(@, [id |-> cart.made + 1,
                                                           productId |-> productId,
                                                           quantity |-> quantity,
                                                           price |-> price]),
                                      !.made = @ + 1])
  /\ UNCHANGED cartFrame

\* removeItem (Cart.js:169-172).
RemoveItem(itemId) ==
  /\ CartSave([cart EXCEPT !.items = SelectSeq(@, LAMBDA item : item.id # itemId)])
  /\ UNCHANGED cartFrame

\* updateItemQuantity (Cart.js:175-181).
UpdateItemQuantity(itemId, quantity) ==
  /\ CartSave([cart EXCEPT !.items = [j \in 1..Len(@) |->
                                        IF @[j].id = itemId
                                        THEN [@[j] EXCEPT !.quantity = quantity]
                                        ELSE @[j]]])
  /\ UNCHANGED cartFrame

\* clearItems (Cart.js:184-187).
ClearItems ==
  /\ CartSave([cart EXCEPT !.items = <<>>])
  /\ UNCHANGED cartFrame

\* complete (Cart.js:190-194).
Complete ==
  /\ CartSave([cart EXCEPT !.status = "COMPLETED", !.completedAt = now])
  /\ UNCHANGED cartFrame

\* cancel (Cart.js:197-200).
Cancel ==
  /\ CartSave([cart EXCEPT !.status = "CANCELLED"])
  /\ UNCHANGED cartFrame

CartInit ==
  /\ template = FindByUni
  /\ providedParams = JObj(<<>>)
  /\ validated = FALSE
  /\ raised = ""
  /\ errors = <<>>
  /\ substituted = NotSubstituted
  /\ RecorderInit
  /\ FlowRest
  /\ RegistryRest
  /\ ServiceRest

CartNext ==
  \/ \E productId \in ProductIds, quantity \in AddQuantities, price \in Prices :
       AddItem(productId, quantity, price)
  \/ \E itemId \in 1..MaxItemIds : RemoveItem(itemId)
  \/ \E itemId \in 1..MaxItemIds, quantity \in NewQuantities :
       UpdateItemQuantity(itemId, quantity)
  \/ ClearItems
  \/ Complete
  \/ Cancel

CartSpec == CartInit /\ [][CartNext]_vars

(***************************************************************************)
(* The user service and the 'users' cache (authService.js, cache.js).      *)
(* A call runs until its await, the database then serves the request, and  *)
(* the call goes on when the promise resolves; other calls run in          *)
(* between.  Entries do not expire here.                                   *)
(***************************************************************************)
\* The names an update can give a user.
NewNames == {2, 3}

WriteOps == {"updateUser", "updateProfile", "activateUser"}

\* CacheManager.set(cacheName, key, value, ttl) (cache.js:50-56).
CacheSet(cache, key, value) == [cache EXCEPT ![key] = Cached(value)]

\* CacheManager.clear(cacheName): flushAll removes every entry of the
\* cache (cache.js:83-89).
CacheClear(cache) == [k \in DOMAIN cache |-> Absent]

\* The update document findByIdAndUpdate applies (authService.js:310-314,
\* 523-527, 757-761).
ApplyUpdate(user, op, data) ==
  IF op = "activateUser" THEN [user EXCEPT !.active = TRUE]
  ELSE [user EXCEPT !.name = data]

userFrame == <<queryVars, recorderVars, flowVars, registryVars, pageVars, cartVars>>

\* getUserById up to its await (authService.js:426-441): a cache hit
\* returns the entry, a miss asks the database.
GetUserByIdStart(c, userId) ==
  /\ svc[c].pc = "idle"
  /\ LET cachedUser == usersCache[UserKey(userId)]
     IN svc' = [svc EXCEPT ![c] =
                  IF cachedUser.present
                  THEN [IdleCall EXCEPT !.pc = "done", !.op = "getUserById",
                                        !.userId = userId, !.result = cachedUser.value]
                  ELSE [IdleCall EXCEPT !.pc = "finding", !.op = "getUserById",
                                        !.userId = userId]]
  /\ UNCHANGED <<userFrame, userDb, usersCache>>

\* The database serves User.findById (authService.js:441).
FindById(c) ==
  /\ svc[c].pc = "finding"
  /\ svc' = [svc EXCEPT ![c].pc = "found", ![c].user = userDb[svc[c].userId]]
  /\ UNCHANGED <<userFrame, userDb, usersCache>>

\* getUserById after its await (authService.js:442-454): the user read is
\* cached and returned.
GetUserByIdFinish(c) ==
  /\ svc[c].pc = "found"
  /\ usersCache' = CacheSet(usersCache, UserKey(svc[c].userId), svc[c].user)
  /\ svc' = [svc EXCEPT ![c].pc = "done", ![c].result = svc[c].user]
  /\ UNCHANGED <<userFrame, userDb>>

\* updateUser, updateProfile and activateUser up to their await
\* (authService.js:305-314, 514-527, 751-761).
UpdateStart(c, op, userId, data) ==
  /\ svc[c].pc = "idle"
  /\ op = "activateUser" => data = 0
  /\ op # "activateUser" => data # 0
  /\ svc' = [svc EXCEPT ![c] = [IdleCall EXCEPT !.pc = "updating", !.op = op,
                                                !.userId = userId, !.data = data]]
  /\ UNCHANGED <<userFrame, userDb, usersCache>>

\* The database serves User.findByIdAndUpdate with new: true.
FindByIdAndUpdate(c) ==
  /\ svc[c].pc = "updating"
  /\ LET user == ApplyUpdate(userDb[svc[c].userId], svc[c].op, svc[c].data)
     IN /\ userDb' = [userDb EXCEPT ![svc[c].userId] = user]
        /\ svc' = [svc EXCEPT ![c].pc = "updated", ![c].user = user]
  /\ UNCHANGED <<userFrame, usersCache>>

\* The update after its await (authService.js:320-330, 533-543, 767-777):
\* the new user is set in the cache, the cache is cleared, the user is
\* returned.
UpdateFinish(c) ==
  /\ svc[c].pc = "updated"
  /\ usersCache' = CacheClear(CacheSet(usersCache, UserKey(svc[c].userId), svc[c].user))
  /\ svc' = [svc EXCEPT ![c].pc = "done", ![c].result = svc[c].user]
  /\ UNCHANGED <<userFrame, userDb>>

UserInit ==
  /\ template = FindByUni
  /\ providedParams = JObj(<<>>)
  /\ validated = FALSE
  /\ raised = ""
  /\ errors = <<>>
  /\ substituted = NotSubstituted
  /\ RecorderInit
  /\ FlowRest
  /\ RegistryRest
  /\ PageRest
  /\ CartRest
  /\ userDb \in [UserIds -> {User(1, TRUE), User(1, FALSE)}]
  /\ usersCache = [k \in CacheKeys |-> Absent]
  /\ svc = [c \in Calls |-> IdleCall]

UserNext ==
  \/ \E c \in Calls, userId \in UserIds : GetUserByIdStart(c, userId)
  \/ \E c \in Calls : FindById(c)
  \/ \E c \in Calls : GetUserByIdFinish(c)
  \/ \E c \in Calls, op \in WriteOps, userId \in UserIds, data \in NewNames \cup {0} :
       UpdateStart(c, op, userId, data)
  \/ \E c \in Calls : FindByIdAndUpdate(c)
  \/ \E c \in Calls : UpdateFinish(c)

UserSpec == UserInit /\ [][UserNext]_vars

(***************************************************************************)
(* Properties of the validator (under Spec).                               *)
(***************************************************************************)
Count(seq, x) == Cardinality({j \in 1..Len(seq) : seq[j] = x})

Keys(obj) == {obj.kids[j].k : j \in 1..Len(obj.kids)}

AllNames == {uni, age, flag, since, id, other}

\* Declared parameters that are required and absent from the map.
MissingRequired(tmpl, params) ==
  {j \in 1..Len(tmpl.parameters) :
     tmpl.parameters[j].required /\ tmpl.parameters[j].name \notin Keys(params)}

\* C1: validateParameters reports "Required parameter '<name>' is missing"
\* once for each declared parameter that is required and whose name is not
\* a key of the map, and for no other parameter.
C1_RequiredMissing ==
  validated =>
    /\ \A n \in AllNames :
         Count(errors, <<"Required parameter '">> \o n \o <<"' is missing">>)
           = Cardinality({j \in MissingRequired(template, providedParams) :
                            template.parameters[j].name = n})
    /\ Cardinality({j \in 1..Len(errors) : errors[j][1] = "Required parameter '"})
         = Cardinality(MissingRequired(template, providedParams))

C1_Witness ==
  /\ validated
  /\ Len(template.parameters) = 2
  /\ template.parameters[1].required /\ template.parameters[1].name \notin Keys(providedParams)
  /\ template.parameters[2].required /\ template.parameters[2].name \in Keys(providedParams)
  /\ errors[1] = <<"Required parameter '">> \o template.parameters[1].name \o <<"' is missing">>

TypedSuffixes ==
  {"' must be a number", "' must be a boolean", "' must be a valid date",
   "' must be a valid ObjectId", "' must be at least ", "' must be at most ",
   "' must be one of: "}

\* Is e a type, range or enum error about the parameter called name?
IsTypedError(e, name) ==
  /\ Len(e) >= Len(name) + 2
  /\ e[1] = "Parameter '"
  /\ SubSeq(e, 2, Len(name) + 1) = name
  /\ e[Len(name) + 2] \in TypedSuffixes

\* C2: a provided key that names no declared parameter gets exactly one
\* "Unknown parameter '<name>'" error and no type, range or enum error.
C2_UnknownParameter ==
  validated =>
    \A k \in Keys(providedParams) :
      (\A j \in 1..Len(template.parameters) : template.parameters[j].name # k) =>
        /\ Count(errors, <<"Unknown parameter '">> \o k \o <<"'">>) = 1
        /\ \A j \in 1..Len(errors) : ~IsTypedError(errors[j], k)

C2_Witness ==
  /\ validated
  /\ Len(providedParams.kids) = 2
  /\ providedParams.kids[1].k = other
  /\ providedParams.kids[2].k = age
  /\ errors = << <<"Unknown parameter '", "z", "z", "'">>,
                 <<"Parameter '", "a", "g", "e", "' must be a number">> >>

\* The spec's range scenario: age: number, min 13, max 120.
AgeTemplate(tmpl) ==
  /\ Len(tmpl.parameters) = 1
  /\ tmpl.parameters[1] = Param(age, "number", FALSE, MinMaxAge)

FieldValueCase(type) ==
  /\ Len(template.parameters) = 1
  /\ template.parameters[1].type = type
  /\ template.query = JObj(<<Entry(template.parameters[1].name,
                                   JStr(Placeholder(template.parameters[1].name))),
                             Entry(active, JBool(TRUE))>>)
  /\ Len(providedParams.kids) = 1
  /\ providedParams.kids[1].k = template.parameters[1].name

\* C4: with a string parameter as a field value, substituteParameters
\* returns the document whose field is the provided string, the other
\* fields unchanged.
C4_StringFieldValue ==
  (substituted.status # "none" /\ FieldValueCase("string")
     /\ providedParams.kids[1].v.t = "str") =>
    /\ substituted.status = "ok"
    /\ substituted.v = JObj(<<Entry(template.parameters[1].name, providedParams.kids[1].v),
                              Entry(active, JBool(TRUE))>>)

\* C5: with a number parameter as a field value, substituting the numeric
\* string "42" returns the document whose field is the number 42.
C5_NumericLiteral ==
  (substituted.status # "none" /\ FieldValueCase("number")
     /\ providedParams.kids[1].v = s42) =>
    /\ substituted.status = "ok"
    /\ substituted.v = JObj(<<Entry(template.parameters[1].name, JNum(42)),
                              Entry(active, JBool(TRUE))>>)

\* Does the text hold the word somewhere?
Occurs(txt, w) == \E i \in 1..Len(txt) : StartsAt(txt, i, w)

\* C6: for a map that passes validation and whose keys' placeholders occur
\* in the query, substituteParameters returns a document and does not raise.
C6_NeverRaises ==
  (/\ validated /\ errors = <<>>
   /\ substituted.status # "none"
   /\ \A k \in Keys(providedParams) :
        Occurs(JSONstringify(template.query), Placeholder(k))) =>
    substituted.status = "ok"

\* C7: with an empty map substituteParameters returns a document equal to
\* template.query.
C7_EmptyMapIdentity ==
  (substituted.status # "none" /\ providedParams = JObj(<<>>)) =>
    /\ substituted.status = "ok"
    /\ substituted.v = template.query

C7_Witness ==
  /\ providedParams = JObj(<<>>)
  /\ substituted.status = "ok"
  /\ ~Occurs(JSONstringify(template.query), <<"{", "{">>)
  /\ \E j \in 1..Len(template.query.kids) : template.query.kids[j].v.t = "arr"

(***************************************************************************)
(* Properties of the execution recorder (under ExecSpec).                  *)
(***************************************************************************)
Done == {r \in Requests : req[r].pc = "done"}

\* The step in which request r calls recordExecution.
Records(r) == req[r].pc = "loaded" /\ req'[r].pc = "done"

\* C8: each recordExecution call adds exactly 1 to the executionCount of
\* its document and sets lastExecuted to the current time, and saves both;
\* after n calls made one after the other on a fresh template the stored
\* executionCount is n.
C8_CountsExecutions ==
  /\ [](~overlapped => stored.executionCount = Cardinality(Done))
  /\ [][\A r \in Requests :
          Records(r) =>
            /\ req'[r].doc.executionCount = req[r].doc.executionCount + 1
            /\ req'[r].doc.lastExecuted = now
            /\ stored'.executionCount = req'[r].doc.executionCount
            /\ stored'.lastExecuted = now]_vars

C8_Witness ==
  /\ ~overlapped
  /\ req[1].pc = "done" /\ req[1].executionTime = 120 /\ req[1].doc.executionCount = 1
  /\ req[2].pc = "done" /\ req[2].executionTime = 240 /\ req[2].doc.executionCount = 2
  /\ req[3].pc = "idle"
  /\ stored.executionCount = 2
  /\ stored.lastExecuted = 2

\* C9: recordExecution sets averageExecutionTime to elapsedMs when
\* executionCount was 0 before the call, and to (previousAverage +
\* elapsedMs) / 2 on every later call, whatever the elapsed values.
C9_AverageByCount ==
  [][\A r \in Requests :
       Records(r) =>
         req'[r].doc.averageExecutionTime =
           IF req[r].doc.executionCount = 0
           THEN req'[r].executionTime * AvgScale
           ELSE (req[r].doc.averageExecutionTime + req'[r].executionTime * AvgScale) \div 2]_vars

\* C10: the stored executionCount never decreases and the stored
\* lastExecuted never moves backwards, in any interleaving of requests.
C10_MonotoneStatistics ==
  [][/\ stored'.executionCount >= stored.executionCount
     /\ stored'.lastExecuted >= stored.lastExecuted]_vars

\* C11: when two requests loaded the same statistics before either saved,
\* one update is lost: once both have recorded, the stored executionCount
\* is smaller than the number of completed recordExecution calls, and the
\* save of the later one leaves only its own sample in
\* averageExecutionTime (on a fresh template, exactly its elapsed time).
C11_LostUpdate ==
  /\ []((\E a, b \in Done :
           a # b /\ req[a].doc.executionCount = req[b].doc.executionCount)
        => stored.executionCount < Cardinality(Done))
  /\ [][\A r \in Requests :
          (Records(r) /\ req[r].doc = FreshStats /\ stored.executionCount >= 1) =>
            /\ stored'.executionCount = 1
            /\ stored'.executionCount < Cardinality({o \in Requests : req'[o].pc = "done"})
            /\ stored'.averageExecutionTime = req'[r].executionTime * AvgScale]_vars

C11_Witness ==
  /\ overlapped
  /\ req[1].pc = "done" /\ req[1].executionTime = 120 /\ req[1].doc.executionCount = 1
  /\ req[2].pc = "done" /\ req[2].executionTime = 240 /\ req[2].doc.executionCount = 1
  /\ req[3].pc = "idle"
  /\ stored.executionCount = 1
  /\ stored.averageExecutionTime = 240 * AvgScale

\* C12: averageExecutionTime is never negative, in the stored document and
\* in every copy, when the elapsed times are not negative.
C12_AverageNonNegative ==
  /\ stored.averageExecutionTime >= 0
  /\ \A r \in Requests : req[r].doc.averageExecutionTime >= 0

C12_Witness ==
  /\ stored.executionCount = 2
  /\ stored.averageExecutionTime = 180 * AvgScale
  /\ \E r \in Done : req[r].executionTime = 120
  /\ \E r \in Done : req[r].executionTime = 240

\* C13: for an objectId parameter "must be a valid ObjectId" is reported
\* iff the value is not a string of 24 hexadecimal characters.
C13_ObjectIdOnlyHex24 ==
  validated =>
    \A j \in 1..Len(providedParams.kids) :
      LET k == providedParams.kids[j].k
          v == providedParams.kids[j].v
          d == FindParam(template.parameters, k)
      IN (d # 0 /\ template.parameters[d].type = "objectId") =>
           Count(errors, <<"Parameter '">> \o k \o <<"' must be a valid ObjectId">>)
             = IF v.t = "str" /\ IsHex24(v.s) THEN 0 ELSE 1

\* Is the value one of the declared enum entries?  A number is the entry
\* that is written like it.
EnumMember(v, enum) ==
  \E j \in 1..Len(enum) :
    \/ v.t = "str" /\ enum[j] = v.s
    \/ v.t = "num" /\ enum[j] = NumberToString(v.n)

C15_ValidateNeverRaises == raised = ""

(***************************************************************************)
(* Properties of the execute flow (under FlowSpec).                        *)
(***************************************************************************)
\* The step in which flow r invokes the operation.
Invokes(r, operation) ==
  /\ flow'[r].calls = Append(flow[r].calls, operation)

Invoked(r, operation) ==
  \E j \in 1..Len(flow[r].calls) : flow[r].calls[j] = operation

\* C16: validateParameters and substituteParameters are read-only: a step
\* that invokes one of them changes neither the template, nor the stored
\* or loaded statistics fields, nor the provided parameter map; the
\* statistics fields change only in a step that invokes recordExecution.
C16_ReadOnlyMethods ==
  /\ [][\A r \in Flows :
          (Invokes(r, "validateParameters") \/ Invokes(r, "substituteParameters")) =>
            /\ template' = template
            /\ stored' = stored
            /\ flow'[r].doc = flow[r].doc
            /\ flow'[r].parameters = flow[r].parameters]_vars
  /\ [][(stored' # stored \/ template' # template) =>
          \E r \in Flows : Invokes(r, "recordExecution") /\ template' = template]_vars
  /\ [][\A r \in Flows :
          (flow[r].pc # "idle" /\ flow'[r].doc # flow[r].doc) =>
            Invokes(r, "recordExecution")]_vars

C16_Witness ==
  \E r \in Flows :
    /\ flow[r].calls = <<"validateParameters", "substituteParameters">>
    /\ flow[r].concrete.status = "ok"
    /\ flow[r].concrete.v # template.query
    /\ flow[r].parameters = JObj(<<Entry(age, JNum(13))>>)
    /\ flow[r].doc = FreshStats
    /\ stored = FreshStats

\* C17: a failed executor run never updates the statistics: the stored
\* executionCount, lastExecuted and averageExecutionTime change only in a
\* recordExecution step of a request whose executor run succeeded; a
\* request whose run failed never invokes recordExecution.
C17_FailedRunNoStatistics ==
  /\ [](\A r \in Flows :
          Invoked(r, "recordExecution") =>
            flow[r].outcome = "ok" /\ Invoked(r, "executor"))
  /\ [](\A r \in Flows :
          flow[r].outcome = "error" =>
            flow[r].pc = "failed" /\ ~Invoked(r, "recordExecution"))
  /\ [][stored' # stored =>
          \E r \in Flows : Invokes(r, "recordExecution") /\ flow[r].outcome = "ok"]_vars
  /\ [][\A r \in Flows :
          (Invokes(r, "executor") /\ flow'[r].outcome = "error") =>
            /\ stored' = stored
            /\ flow'[r].pc = "failed"]_vars

C17_Witness ==
  /\ flow[1].outcome = "error"
  /\ flow[1].calls = <<"validateParameters", "substituteParameters", "executor">>
  /\ flow[2].outcome = "ok"
  /\ flow[2].pc = "done"
  /\ stored.executionCount = 1
  /\ stored.averageExecutionTime = 120 * AvgScale

\* C18: when validateParameters returns a non-empty list the request
\* fails with all the error strings and invokes neither
\* substituteParameters, the executor nor recordExecution; a request
\* invokes substituteParameters only after its validation returned an
\* empty list.
C18_ValidationFailureAborts ==
  /\ [](\A r \in Flows :
          flow[r].errors # <<>> =>
            /\ flow[r].pc = "rejected"
            /\ flow[r].reported = validateParameters(template, flow[r].parameters)
            /\ flow[r].calls = <<"validateParameters">>)
  /\ [][\A r \in Flows :
          Invokes(r, "substituteParameters") =>
            /\ flow[r].calls = <<"validateParameters">>
            /\ flow[r].pc = "validated"
            /\ ~validateParametersThrows(template, flow[r].parameters)
            /\ validateParameters(template, flow[r].parameters) = <<>>]_vars

C18_Witness ==
  /\ flow[1].pc = "rejected"
  /\ flow[1].reported = <<MsgMax(age, 120), MsgUnknown(other)>>
  /\ flow[1].calls = <<"validateParameters">>
  /\ flow[2].pc = "done"
  /\ flow[2].calls = <<"validateParameters", "substituteParameters", "executor",
                       "recordExecution">>

(***************************************************************************)
(* Properties of the collection of templates (under RegistrySpec).         *)
(***************************************************************************)
\* Every document of the result is stored and active.
ReturnedActive(docs) ==
  \A j \in 1..Len(docs) :
    \E i \in 1..Len(registry) : registry[i].name = docs[j].name /\ registry[i].active

\* C19: findActive, findByCollection, findByCategory, search and
\* getPopularQueries never return a template with active = false, and a
\* deactivated template stays stored: no step removes a stored template
\* or makes an inactive one active.
C19_InactiveNeverReturned ==
  /\ [][Lookup => ReturnedActive(found'.docs)]_vars
  /\ [][\A i \in 1..Len(registry) :
          /\ Len(registry') >= i
          /\ registry'[i].name = registry[i].name
          /\ ~registry[i].active => ~registry'[i].active]_vars

C19_Witness ==
  /\ Len(registry) = 2
  /\ ~registry[1].active /\ registry[1].executionCount = 1
  /\ registry[2].active /\ registry[2].executionCount = 0
  /\ found.op = "getPopularQueries"
  /\ Len(found.docs) = 1
  /\ found.docs[1].name = registry[2].name

\* C20: no two stored templates have the same name, whatever the order
\* and interleaving of the creations: a creation whose name is already
\* stored is rejected as a conflict and leaves the collection unchanged.
C20_UniqueNames ==
  /\ [](\A i, j \in 1..Len(registry) : registry[i].name = registry[j].name => i = j)
  /\ [][\A c \in Clients :
          (/\ client[c].pc = "built" /\ client'[c].pc # "built"
           /\ \E i \in 1..Len(registry) : registry[i].name = client[c].name) =>
            /\ client'[c].pc = "conflict"
            /\ registry' = registry]_vars

C20_Witness ==
  /\ client[1].pc = "conflict" /\ client[1].data.name = <<" ", "q", "1", " ">>
  /\ client[2].pc = "created" /\ client[2].data.name = <<"q", "1">>
  /\ Len(registry) = 1
  /\ registry[1].name = <<"q", "1">>
  /\ registry[1].collection = "carts"

(***************************************************************************)
(* Properties of parsePagination (under PageSpec).                         *)
(***************************************************************************)
\* The text of the value does not begin with a number: after white space
\* and a sign there is no digit.
NotNumeric(v) ==
  LET txt == TrimLeft(QueryToString(v))
      body == IF txt # <<>> /\ Head(txt) \in {"-", "+"} THEN Tail(txt) ELSE txt
  IN body = <<>> \/ ~IsDigit(Head(body))

RECURSIVE Total(_, _)
\* The sum of quantity * price over the items from position j on.
Total(items, j) ==
  IF j > Len(items) THEN 0 ELSE items[j].quantity * items[j].price + Total(items, j + 1)

\* C22: after every successful save of the cart, whichever of addItem,
\* removeItem, updateItemQuantity, clearItems, complete and cancel made
\* it and in whatever order, totalAmount is the sum of quantity * price
\* over the items, in the document and in what was written, and 0 when
\* there are no items.
C22_TotalAmount ==
  /\ cartSaved = "ok" =>
       /\ cart.totalAmount = Total(cart.items, 1)
       /\ cart.items = <<>> => cart.totalAmount = 0
       /\ cartStored = cart
  /\ cartStored.totalAmount = Total(cartStored.items, 1)

C22_Witness ==
  /\ cartSaved = "ok"
  /\ Len(cart.items) = 2
  /\ cart.items[1].quantity = 1000 /\ cart.items[1].price = 5
  /\ cart.items[2].quantity = 3 /\ cart.items[2].price = 5
  /\ cart.totalAmount = 5015
  /\ cart.status = "COMPLETED"

(***************************************************************************)
(* Properties of the user service and its cache (under UserSpec).          *)
(***************************************************************************)
\* The step in which call c returns.
Returns(c) == svc[c].pc # "done" /\ svc'[c].pc = "done"

\* C23: when updateUser, activateUser or updateProfile returns, the
\* 'users' cache holds the updated user under the key user:<userId>.
C23_CacheHoldsUpdatedUser ==
  [][\A c \in Calls :
       (Returns(c) /\ svc'[c].op \in WriteOps) =>
         usersCache'[UserKey(svc'[c].userId)] = Cached(svc'[c].result)]_vars

\* No call but c is between its start and its return.
OthersFinished(c) ==
  \A o \in Calls \ {c} :
    /\ svc[o].pc \in {"idle", "done"}
    /\ svc[o].op \in {"none", "getUserById", "updateUser"}

\* C30: once every earlier getUserById and updateUser has returned, a
\* getUserById returns the user as the database holds it, never the user
\* of before the update.
C30_NoStaleRead ==
  [][\A c \in Calls :
       (/\ OthersFinished(c)
        /\ svc[c].pc = "idle"
        /\ svc'[c].pc = "done"
        /\ svc'[c].op = "getUserById") =>
         svc'[c].result = userDb[svc'[c].userId]]_vars

(***************************************************************************)
(* Completeness and order of the error list (under Spec).                  *)
(***************************************************************************)
\* The violations of a map, each with its place in the report: phase 0 is
\* the pass over template.parameters (pos = index of the parameter), phase
\* 1 the pass over the map (pos = index of the key); kind orders the checks
\* of one key: 1 unknown, 2 type, 3 min, 4 max, 5 enum.
Violation(phase, pos, kind, msg) == [phase |-> phase, pos |-> pos, kind |-> kind, msg |-> msg]

TypeViolated(type, v) ==
  \/ type = "number" /\ isNaN(v)
  \/ type = "boolean" /\ v.t # "bool"
  \/ type = "date" /\ DateParseIsNaN(v)
  \/ type = "objectId" /\ ~ObjectIdIsValid(v)

TypeMessage(type, k) ==
  CASE type = "number" -> MsgNumber(k)
    [] type = "boolean" -> MsgBoolean(k)
    [] type = "date" -> MsgDate(k)
    [] type = "objectId" -> MsgObjectId(k)
    [] OTHER -> <<>>

Violations(tmpl, params) ==
  {Violation(0, j, 0, MsgRequired(tmpl.parameters[j].name)) :
     j \in MissingRequired(tmpl, params)}
  \cup
  UNION {LET k == params.kids[j].k
             v == params.kids[j].v
             d == FindParam(tmpl.parameters, k)
         IN IF d = 0 THEN {Violation(1, j, 1, MsgUnknown(k))}
            ELSE LET def == tmpl.parameters[d]
                     val == def.validation
                     numeric == def.type = "number" /\ ~isNaN(v)
                 IN (IF TypeViolated(def.type, v)
                     THEN {Violation(1, j, 2, TypeMessage(def.type, k))} ELSE {})
                    \cup (IF numeric /\ val.hasMin /\ LessThan(v, val.min)
                          THEN {Violation(1, j, 3, MsgMin(k, val.min))} ELSE {})
                    \cup (IF numeric /\ val.hasMax /\ GreaterThan(v, val.max)
                          THEN {Violation(1, j, 4, MsgMax(k, val.max))} ELSE {})
                    \cup (IF val.hasEnum
                             /\ \A h \in 1..Len(val.enum) : JStr(val.enum[h]) # v
                          THEN {Violation(1, j, 5, MsgEnum(k, val.enum))} ELSE {})
         : j \in 1..Len(params.kids)}

Precedes(a, b) ==
  \/ a.phase < b.phase
  \/ a.phase = b.phase /\ a.pos < b.pos
  \/ a.phase = b.phase /\ a.pos = b.pos /\ a.kind < b.kind

\* C24: validateParameters reports every violation of the map, one error
\* each, and in a fixed order: the required-missing errors in the order of
\* template.parameters, then key by key in the order of the map the
\* unknown, type, min, max and enum errors of that key; k violations give
\* k errors.
C24_AllErrorsInOrder ==
  validated =>
    LET V == Violations(template, providedParams)
    IN /\ Len(errors) = Cardinality(V)
       /\ \A a \in V : errors[1 + Cardinality({b \in V : Precedes(b, a)})] = a.msg

C24_Witness ==
  /\ validated
  /\ template.parameters = <<Param(age, "number", FALSE, EnumAge),
                             Param(uni, "string", TRUE, NoValidation)>>
  /\ providedParams = JObj(<<Entry(other, sCo), Entry(age, sCo)>>)
  /\ errors = <<MsgRequired(uni), MsgUnknown(other), MsgNumber(age),
                MsgEnum(age, EnumAge.enum)>>

\* Values that are no numbers: the empty string, null, true and an array.
NotNumbers == {JStr(<<>>), JNull, JBool(TRUE), JArr(<<>>)}

\* C25: for a number parameter "must be a number" is reported iff the
\* value cannot be read as a number, the min/max check is made only for
\* values that passed, and the empty string, null, true and an array are
\* not accepted as numbers.
C25_NumberCheck ==
  validated =>
    \A j \in 1..Len(providedParams.kids) :
      LET k == providedParams.kids[j].k
          v == providedParams.kids[j].v
          d == FindParam(template.parameters, k)
      IN (d # 0 /\ template.parameters[d].type = "number") =>
           /\ (v \in NotNumbers \/ (v.t = "str" /\ StringToNumber(v.s).t = "nan"))
                 <=> Count(errors, MsgNumber(k)) = 1
           /\ Count(errors, MsgNumber(k)) = 1 =>
                 \A h \in 1..Len(errors) :
                   ~(IsTypedError(errors[h], k)
                     /\ errors[h][Len(k) + 2] \in {"' must be at least ", "' must be at most "})

(***************************************************************************)
(* Properties of the placeholder tokens (under TokenSpec).                 *)
(***************************************************************************)
\* How many times does the text hold the word?
Occurrences(txt, w) == Cardinality({i \in 1..Len(txt) : StartsAt(txt, i, w)})

\* The value of the field k of a document (null when there is none).
Field(doc, k) ==
  IF \E j \in 1..Len(doc.kids) : doc.kids[j].k = k
  THEN doc.kids[CHOOSE j \in 1..Len(doc.kids) : doc.kids[j].k = k].v
  ELSE JNull

\* C26: in the document substituteParameters returns no token {{key}} is
\* left for any key of the map, at any depth, and a token is matched only
\* as a whole: with the key a provided and ab not, {{ab}} stays as it is.
C26_NoTokenRemains ==
  substituted.status = "ok" =>
    /\ \A k \in Keys(providedParams) :
         ~Occurs(JSONstringify(substituted.v), Placeholder(k))
    /\ (template.query = FieldsQuery /\ keyA \in Keys(providedParams)) =>
         Field(substituted.v, <<"y">>) = JStr(Placeholder(keyAB))

NotProvided == {keyA, keyB, keyAB} \ Keys(providedParams)

\* No provided value is a string: the inserted texts are JSON literals
\* without quotes and without "$" patterns.
NoStringProvided == \A j \in 1..Len(providedParams.kids) : providedParams.kids[j].v.t # "str"

\* C27: a placeholder whose name is no key of the map stays in the result
\* as the literal text {{name}}, also when the parameter declares a
\* defaultValue; substituteParameters applies no default and raises no
\* error on account of an unresolved placeholder.
C27_UnresolvedPlaceholdersStay ==
  /\ substituted.status = "ok" =>
       \A name \in NotProvided :
         Occurrences(JSONstringify(substituted.v), Placeholder(name))
           >= Occurrences(JSONstringify(template.query), Placeholder(name))
  /\ (substituted.status = "ok" /\ template.query = FieldsQuery
      /\ keyAB \in NotProvided) =>
       Field(substituted.v, <<"y">>) = JStr(Placeholder(keyAB))
  /\ (substituted.status # "none" /\ NoStringProvided) => substituted.status = "ok"

C27_Witness ==
  /\ template = [parameters |-> <<Param(keyA, "number", TRUE, NoValidation),
                                  ParamWithDefault(keyAB, "string", FALSE, NoValidation, sCo)>>,
                 query |-> FieldsQuery]
  /\ providedParams = JObj(<<Entry(keyA, JNum(5))>>)
  /\ substituted = [status |-> "ok",
                    v |-> JObj(<<Entry(<<"x">>, JStr(<<"5">>)),
                                 Entry(<<"y">>, JStr(Placeholder(keyAB)))>>)]

\* C28: for a key of the map that has no parameter definition in the
\* template substituteParameters does not raise and puts the raw value,
\* uncoerced, in the place of the key's placeholder.
C28_RawValueWithoutSchema ==
  (/\ substituted.status # "none"
   /\ Len(providedParams.kids) = 1
   /\ FindParam(template.parameters, providedParams.kids[1].k) = 0) =>
    /\ substituted.status = "ok"
    /\ (template.query = FieldsQuery /\ providedParams.kids[1].k = keyA) =>
         Field(substituted.v, <<"x">>)
           \in {providedParams.kids[1].v, JStr(JSToString(providedParams.kids[1].v))}

\* The entries of the map in the opposite insertion order.
Reversed(obj) ==
  JObj([j \in 1..Len(obj.kids) |-> obj.kids[Len(obj.kids) + 1 - j]])

\* C29: the document substituteParameters returns does not depend on the
\* insertion order of the keys: the map with the same entries in the
\* opposite order gives an equal document, also when a string value holds
\* the text of another key's placeholder.
C29_OrderIndependent ==
  LET swapped == substituteParameters(template, Reversed(providedParams))
  IN (substituted.status = "ok" /\ swapped.status = "ok") => swapped.v = substituted.v

====
